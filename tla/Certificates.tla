---------------------------- MODULE Certificates ----------------------------
(***************************************************************************)
(* The local CA and the certificates under it (crates/nsl/src/certs/): the *)
(* files that `nsl trust` and a starting proxy make if they are missing or *)
(* about to expire, the certificate a running proxy makes for a hostname   *)
(* on its first TLS handshake, and the CA's copy in the system's store.    *)
(*                                                                         *)
(* A certificate names its key and the key that signed it; what else is in *)
(* it is left out, and so are file modes.  No file is replaced at once: it *)
(* is truncated, then written.                                             *)
(***************************************************************************)
EXTENDS Naturals, Sequences, FiniteSets

CONSTANTS Hosts,     \* hostnames that clients ask for
          Keys,      \* bound: as many keys are in use at one time
          MaxCache,  \* MAX_SNI_CACHE_SIZE
          MaxMishaps, \* bound on what history records
          Absent, Torn, None

ASSUME HostsAssumption == {"ca", "server", "anchor", None} \cap Hosts = {}
ASSUME BoundsAssumption == MaxCache \in Nat /\ MaxMishaps \in Nat

Commands == {"trust", "proxy"}
Subjects == {"ca", "server"} \cup Hosts

\* ca-key.pem, ca.pem, server-key.pem, server.pem, host-certs/*, and the copy
\* of ca.pem among the system's trust anchors.
Files    == ({"key", "cert"} \X Subjects) \cup {<<"cert", "anchor">>}
Cert     == [key: Keys, by: Keys]
Contents == Keys \cup Cert \cup {Absent, Torn}
Write    == [file: Files, content: Contents]

\* rustls' CertifiedKey: what a handshake is answered with.
CertifiedKey == [key: Keys, cert: Cert \cup {Torn}]

ASSUME MarksAssumption ==
  /\ {Absent, Torn} \cap (Keys \cup Cert) = {} /\ Keys \cap Cert = {}
  /\ None \notin CertifiedKey

VARIABLES
  disk,         \* the files
  due,          \* whose certificate on disk has reached its date, less buffer
  bundle,       \* the CA in the bundle that the system's programs read
  pc,           \* where each command is
  todo,         \* the files a command has yet to write
  opened,       \* commands that have truncated the first of these
  regenerated,  \* commands whose ca_regenerated is set
  resolving,    \* the hostname that the proxy makes a certificate for
  default,      \* SniCertResolver.default_key
  cache,        \* SniCertResolver.cache
  served,       \* what the last handshake got
  overlapped,   \* history: two commands ensured certificates at once, or a
                \* file was removed while one did
  cut,          \* history: a command was killed or a write failed
  removed,      \* history: the user removed a file
  caExpired,    \* history: a CA reached its date
  updateCut,    \* history: the update of the bundle failed or was killed
  mishaps       \* how many of these there were

commands == <<pc, todo, opened, regenerated>>
resolver == <<resolving, default, cache, served>>
history  == <<overlapped, cut, removed, caExpired, updateCut, mishaps>>
vars     == <<disk, due, bundle, commands, resolver, history>>

KeyOf(s)  == disk[<<"key", s>>]
CertOf(s) == disk[<<"cert", s>>]

Ensuring == {"checkCa", "writeCa", "checkServer", "writeServer", "ensured"}
Trusting == {"copy", "update"}
Serving  == {"serving", "writeHost", "loadHost"}
Busy(c)  == pc[c] \in Ensuring \cup Trusting

KeysIn(x) == IF x \in Keys THEN {x} ELSE IF x \in Cert THEN {x.key, x.by} ELSE {}
KeysOf(p) == IF p = None THEN {} ELSE {p.key} \cup KeysIn(p.cert)

\* KeyPair::generate_for: a key that nobody has.
NewKeys ==
  Keys \ ( UNION {KeysIn(disk[f]) : f \in Files}
           \cup UNION {UNION {KeysIn(todo[c][i].content) : i \in DOMAIN todo[c]} : c \in Commands}
           \cup UNION {KeysOf(p) : p \in {default, served} \cup {cache[h] : h \in Hosts}}
           \cup KeysIn(bundle) )
NewKey == CHOOSE k \in NewKeys : TRUE

Init ==
  /\ disk = [f \in Files |-> Absent]
  /\ due = {} /\ bundle = None
  /\ pc = [c \in Commands |-> "idle"]
  /\ todo = [c \in Commands |-> <<>>]
  /\ opened = {} /\ regenerated = {}
  /\ resolving = None /\ default = None /\ served = None
  /\ cache = [h \in Hosts |-> None]
  /\ overlapped = FALSE /\ cut = FALSE /\ removed = FALSE
  /\ caExpired = FALSE /\ updateCut = FALSE /\ mishaps = 0

Mishap == mishaps < MaxMishaps /\ mishaps' = mishaps + 1

Goto(c, label) == pc' = [pc EXCEPT ![c] = label]

-------------------------------------------------------------------------------
(* ensure_certs, called by `nsl trust` and by start_proxy                   *)

Begin(c) ==
  /\ pc[c] \in {"idle", "trusted"}
  /\ Goto(c, "checkCa")
  /\ regenerated' = regenerated \ {c}
  /\ \/ (\A d \in Commands \ {c} : ~Busy(d)) /\ UNCHANGED <<overlapped, mishaps>>
     \/ (\E d \in Commands \ {c} : Busy(d)) /\ overlapped' = TRUE /\ Mishap
  /\ UNCHANGED <<disk, due, bundle, todo, opened, resolver,
                 cut, removed, caExpired, updateCut>>

IsCertValid(s) == CertOf(s) \in Cert /\ s \notin due

Usable(s) == CertOf(s) # Absent /\ KeyOf(s) # Absent /\ IsCertValid(s)

\* load_ca_keypair: that key and certificate belong together is not looked at.
CaLoads == KeyOf("ca") \in Keys /\ CertOf("ca") \in Cert

\* load_certified_key: the same.  A certificate that is cut off does not parse,
\* an empty one is an empty chain.
Loads(s)   == KeyOf(s) \in Keys /\ CertOf(s) \in Cert
MayLoad(s) == KeyOf(s) \in Keys /\ CertOf(s) \in Cert \cup {Torn}
Loaded(s)  == [key |-> KeyOf(s), cert |-> CertOf(s)]

\* Variant with a fault: the certificate is written before its key.
PairOfFilesCertFirst(s, k, signer) ==
  << [file |-> <<"cert", s>>, content |-> [key |-> k, by |-> signer]],
     [file |-> <<"key", s>>, content |-> k] >>

\* The key goes to disk before the certificate.
PairOfFiles(s, k, signer) ==
  << [file |-> <<"key", s>>, content |-> k],
     [file |-> <<"cert", s>>, content |-> [key |-> k, by |-> signer]] >>

Generate(c, s, k, signer) ==
  /\ NewKeys # {}
  /\ todo' = [todo EXCEPT ![c] = PairOfFiles(s, k, signer)]

CheckCa(c) ==
  /\ pc[c] = "checkCa"
  /\ \/ Usable("ca") /\ Goto(c, "checkServer") /\ UNCHANGED <<todo, regenerated>>
     \/ /\ ~Usable("ca")
        /\ Generate(c, "ca", NewKey, NewKey)
        /\ regenerated' = regenerated \cup {c}
        /\ Goto(c, "writeCa")
  /\ UNCHANGED <<disk, due, bundle, opened, resolver, history>>

\* Variant with a fault: a new CA does not renew the server's certificate.
CheckServerAlone(c) ==
  /\ pc[c] = "checkServer"
  /\ \/ Usable("server") /\ Goto(c, "ensured") /\ UNCHANGED todo
     \/ /\ ~Usable("server")
        /\ CaLoads
        /\ Generate(c, "server", NewKey, KeyOf("ca"))
        /\ Goto(c, "writeServer")
     \/ ~Usable("server") /\ ~CaLoads /\ Goto(c, "idle") /\ UNCHANGED todo
  /\ UNCHANGED <<disk, due, bundle, opened, regenerated, resolver, history>>

CheckServer(c) ==
  LET fine == c \notin regenerated /\ Usable("server")
  IN  /\ pc[c] = "checkServer"
      /\ \/ fine /\ Goto(c, "ensured") /\ UNCHANGED todo
         \/ /\ ~fine
            /\ CaLoads
            /\ Generate(c, "server", NewKey, KeyOf("ca"))
            /\ Goto(c, "writeServer")
         \/ ~fine /\ ~CaLoads /\ Goto(c, "idle") /\ UNCHANGED todo
      /\ UNCHANGED <<disk, due, bundle, opened, regenerated, resolver, history>>

-------------------------------------------------------------------------------
(* write_key_file, fs::write and fs::copy                                   *)

Truncate(c) ==
  /\ todo[c] # <<>> /\ c \notin opened
  /\ disk' = [disk EXCEPT ![Head(todo[c]).file] = Torn]
  /\ opened' = opened \cup {c}
  /\ UNCHANGED <<due, bundle, pc, todo, regenerated, resolver, history>>

After(label) ==
  CASE label = "writeCa"     -> "checkServer"
    [] label = "writeServer" -> "ensured"
    [] label = "writeHost"   -> "loadHost"
    [] label = "copy"        -> "update"

WriteFile(c) ==
  LET w == Head(todo[c])
  IN  /\ todo[c] # <<>> /\ c \in opened
      /\ disk' = [disk EXCEPT ![w.file] = w.content]
      /\ due' = IF w.file[1] = "cert" THEN due \ {w.file[2]} ELSE due
      /\ todo' = [todo EXCEPT ![c] = Tail(@)]
      /\ opened' = opened \ {c}
      /\ IF Len(todo[c]) = 1 THEN Goto(c, After(pc[c])) ELSE UNCHANGED pc
      /\ UNCHANGED <<bundle, regenerated, resolver, history>>

\* Variant with a fault: the name being resolved is not forgotten.
AbandonKeepsName(c) ==
  /\ todo' = [todo EXCEPT ![c] = <<>>]
  /\ opened' = opened \ {c}
  /\ UNCHANGED <<resolving, regenerated, cache>>

\* A handshake whose certificate cannot be made gets the default one; a start
\* or `nsl trust` ends with the error.
Abandon(c) ==
  /\ todo' = [todo EXCEPT ![c] = <<>>]
  /\ opened' = opened \ {c}
  /\ resolving' = IF c = "proxy" THEN None ELSE resolving
  /\ UNCHANGED <<regenerated, cache>>

\* The file cannot be opened, or the disk is full.
WriteFails(c) ==
  /\ todo[c] # <<>>
  /\ Mishap
  /\ Abandon(c)
  /\ Goto(c, IF pc[c] = "writeHost" THEN "serving" ELSE "idle")
  /\ served' = IF pc[c] = "writeHost" THEN default ELSE served
  /\ cut' = TRUE
  /\ UNCHANGED <<disk, due, bundle, default, overlapped, removed,
                 caExpired, updateCut>>

-------------------------------------------------------------------------------
(* SniCertResolver; its mutex lets one handshake at a time through          *)

\* SniCertResolver::new
StartServing ==
  /\ pc["proxy"] = "ensured"
  /\ \/ /\ MayLoad("server")
        /\ default' = Loaded("server")
        /\ cache' = [h \in Hosts |-> None]
        /\ served' = None
        /\ Goto("proxy", "serving")
     \/ ~Loads("server") /\ Goto("proxy", "idle") /\ UNCHANGED <<default, cache, served>>
  /\ UNCHANGED <<disk, due, bundle, todo, opened, regenerated, resolving, history>>

\* No name, "localhost" or a name that is not valid.
ServeDefault ==
  /\ pc["proxy"] = "serving"
  /\ served' = default
  /\ UNCHANGED <<disk, due, bundle, commands, resolving, default, cache, history>>

Remember(h, pair) ==
  cache' = IF Cardinality({g \in Hosts : cache[g] # None}) < MaxCache
             THEN [cache EXCEPT ![h] = pair] ELSE cache

ServeCached(h) ==
  /\ pc["proxy"] = "serving"
  /\ cache[h] # None
  /\ served' = cache[h]
  /\ UNCHANGED <<disk, due, bundle, commands, resolving, default, cache, history>>

ServeFromDisk(h) ==
  /\ pc["proxy"] = "serving"
  /\ cache[h] = None
  /\ Usable(h) /\ Loads(h)
  /\ served' = Loaded(h)
  /\ Remember(h, Loaded(h))
  /\ UNCHANGED <<disk, due, bundle, commands, resolving, default, history>>

\* generate_host_cert, up to the writes
GenerateHostCert(h) ==
  /\ pc["proxy"] = "serving"
  /\ cache[h] = None
  /\ ~(Usable(h) /\ Loads(h))
  /\ \/ /\ CaLoads
        /\ Generate("proxy", h, NewKey, KeyOf("ca"))
        /\ resolving' = h
        /\ Goto("proxy", "writeHost")
        /\ UNCHANGED served
     \/ ~CaLoads /\ served' = default /\ UNCHANGED <<pc, todo, resolving>>
  /\ UNCHANGED <<disk, due, bundle, opened, regenerated, default, cache, history>>

\* Back in resolve_for_hostname, which reads what was written.
LoadHostCert ==
  /\ pc["proxy"] = "loadHost"
  /\ \/ /\ MayLoad(resolving)
        /\ served' = Loaded(resolving)
        /\ Remember(resolving, Loaded(resolving))
     \/ ~Loads(resolving) /\ served' = default /\ UNCHANGED cache
  /\ resolving' = None
  /\ Goto("proxy", "serving")
  /\ UNCHANGED <<disk, due, bundle, todo, opened, regenerated, default, history>>

-------------------------------------------------------------------------------
(* trust_ca on Debian, RHEL and their likes                                 *)

\* Variant with a fault: any CA among the anchors will do.
IsCaTrustedByName == CertOf("ca") # Absent /\ CertOf("anchor") # Absent

\* The anchor is compared with ca.pem; the bundle made of the anchors is not
\* looked at.  (On Arch the anchor is in a third place, where it is not found.)
IsCaTrusted == CertOf("ca") # Absent /\ CertOf("anchor") = CertOf("ca")

TrustCa ==
  /\ pc["trust"] = "ensured"
  /\ \/ IsCaTrusted /\ Goto("trust", "trusted") /\ UNCHANGED todo
     \/ /\ ~IsCaTrusted /\ CertOf("ca") # Absent
        /\ todo' = [todo EXCEPT !["trust"] =
                      << [file |-> <<"cert", "anchor">>, content |-> CertOf("ca")] >>]
        /\ Goto("trust", "copy")
     \/ CertOf("ca") = Absent /\ Goto("trust", "idle") /\ UNCHANGED todo
  /\ UNCHANGED <<disk, due, bundle, opened, regenerated, resolver, history>>

\* update-ca-certificates and its likes make the bundle anew, or fail.
UpdateBundle ==
  /\ pc["trust"] = "update"
  /\ \/ bundle' = CertOf("anchor") /\ Goto("trust", "trusted") /\ UNCHANGED <<updateCut, mishaps>>
     \/ bundle' = bundle /\ Goto("trust", "idle") /\ updateCut' = TRUE /\ Mishap
  /\ UNCHANGED <<disk, due, todo, opened, regenerated, resolver,
                 overlapped, cut, removed, caExpired>>

-------------------------------------------------------------------------------
(* The user, the clock and the end of processes                             *)

\* Also the ordinary end of the proxy.
Kill(c) ==
  /\ pc[c] \notin {"idle", "trusted"}
  /\ Abandon(c)
  /\ Goto(c, "idle")
  /\ IF c = "proxy" THEN default' = None /\ served' = None
                    ELSE UNCHANGED <<default, served>>
  /\ IF pc[c] = "serving" THEN UNCHANGED <<cut, mishaps>> ELSE cut' = TRUE /\ Mishap
  /\ updateCut' = (updateCut \/ pc[c] = "update")
  /\ UNCHANGED <<disk, due, bundle, overlapped, removed, caExpired>>

RemoveFile(f) ==
  /\ Mishap
  /\ disk[f] # Absent /\ f # <<"cert", "anchor">>
  /\ disk' = [disk EXCEPT ![f] = Absent]
  /\ due' = IF f[1] = "cert" THEN due \ {f[2]} ELSE due
  /\ removed' = TRUE
  /\ overlapped' = (overlapped \/ \E c \in Commands : Busy(c))
  /\ UNCHANGED <<bundle, commands, resolver, cut, caExpired, updateCut>>

Expire(s) ==
  /\ Mishap
  /\ IsCertValid(s)
  /\ due' = due \cup {s}
  /\ caExpired' = (caExpired \/ s = "ca")
  /\ UNCHANGED <<disk, bundle, commands, resolver, overlapped, cut, removed, updateCut>>

Next ==
  \/ \E c \in Commands :
       \/ Begin(c) \/ CheckCa(c) \/ CheckServer(c)
       \/ Truncate(c) \/ WriteFile(c) \/ WriteFails(c) \/ Kill(c)
  \/ StartServing \/ ServeDefault \/ LoadHostCert
  \/ \E h \in Hosts : ServeCached(h) \/ ServeFromDisk(h) \/ GenerateHostCert(h)
  \/ TrustCa \/ UpdateBundle
  \/ \E f \in Files : RemoveFile(f)
  \/ \E s \in Subjects : Expire(s)

Spec == Init /\ [][Next]_vars

-------------------------------------------------------------------------------
(* Properties                                                               *)

Optional(S) == S \cup {None}

\* Every variable has its type, and what a handshake may get is loaded while the
\* proxy serves and only then.
TypeOK ==
  /\ disk \in [Files -> Contents]
  /\ \A f \in Files : /\ disk[f] \in Keys => f[1] = "key"
                      /\ disk[f] \in Cert => f[1] = "cert"
  /\ due \subseteq {s \in Subjects : CertOf(s) \in Cert \cup {Torn}}
  /\ bundle \in Cert \cup {Absent, Torn, None}
  /\ pc \in [Commands -> {"idle", "trusted"} \cup Ensuring \cup Trusting \cup Serving]
  /\ pc["trust"] \notin Serving
  /\ \A c \in Commands :
       /\ \A i \in DOMAIN todo[c] : todo[c][i] \in Write
       /\ Len(todo[c]) \in CASE pc[c] \in {"writeCa", "writeServer", "writeHost"} -> {1, 2}
                             [] pc[c] = "copy" -> {1}
                             [] OTHER -> {0}
  /\ opened \subseteq {c \in Commands : todo[c] # <<>>}
  /\ regenerated \subseteq Commands
  /\ resolving \in Optional(Hosts)
  /\ (resolving # None) <=> (pc["proxy"] \in {"writeHost", "loadHost"})
  /\ {default, served} \cup {cache[h] : h \in Hosts} \subseteq Optional(CertifiedKey)
  /\ (default # None) <=> (pc["proxy"] \in Serving)
  /\ {overlapped, cut, removed, caExpired, updateCut} \subseteq BOOLEAN
  /\ mishaps \in 0..MaxMishaps

Signed(k, cert, signer) == cert \in Cert /\ cert.key = k /\ cert.by = signer

\* The files of a CA and of a server's certificate under it.
ChainOnDisk ==
  /\ Signed(KeyOf("ca"), CertOf("ca"), KeyOf("ca"))
  /\ Signed(KeyOf("server"), CertOf("server"), KeyOf("ca"))

\* ensure_certs run by one command at a time leaves a CA and a server
\* certificate under it, each with its key, whichever files were missing, due
\* or cut off before; after a command was cut short it may not, if before or
\* since then a file was removed or the CA was renewed for its date.
EnsureMakesAChain ==
  [][ \A c \in Commands :
        pc[c] # "ensured" /\ pc'[c] = "ensured" /\ ~overlapped'
        /\ (cut' => ~removed' /\ ~caExpired')
        => ChainOnDisk' ]_vars

\* What a running proxy answers a handshake with, from its default, from its
\* cache or from the disk, has its own key and is signed by the CA on disk, the
\* one that `nsl trust` installs, through every crash and failed write.
ServedCertIsTrusted ==
  ~overlapped /\ ~removed /\ ~caExpired /\ pc["proxy"] \in Serving =>
    \A p \in ({default, served} \cup {cache[h] : h \in Hosts}) \ {None} :
      Signed(p.key, p.cert, KeyOf("ca"))

\* When `nsl trust` says that the CA is installed, or was already, the system's
\* programs trust the CA that is on disk, also after a CA was renewed and after
\* a copy was cut short; an update that failed is not seen the next time.
TrustedMeansInstalled ==
  [][ pc["trust"] # "trusted" /\ pc'["trust"] = "trusted" /\ ~overlapped' /\ ~updateCut'
      => bundle' = CertOf("ca") ]_vars

-------------------------------------------------------------------------------
(* Their inductive strengthening                                            *)

Leaves == {"server"} \cup Hosts

\* What is left to be written of a pair of files.
Todo(c, s, k, signer) ==
  todo[c] \in {PairOfFiles(s, k, signer), Tail(PairOfFiles(s, k, signer))}

Alone ==
  /\ ~(Busy("trust") /\ Busy("proxy"))
  /\ pc["trust"] \notin Serving /\ pc["proxy"] \notin Trusting \cup {"trusted"}

\* A command has files to write in the phases that write, and those of this phase.
TodoOk(c) ==
  /\ pc[c] \notin {"writeCa", "writeServer", "writeHost", "copy"} => todo[c] = <<>>
  /\ pc[c] = "writeCa" => \E k \in Keys : Todo(c, "ca", k, k)
  /\ pc[c] = "writeServer" =>
       KeyOf("ca") \in Keys /\ \E k \in Keys : Todo(c, "server", k, KeyOf("ca"))
  /\ pc[c] = "writeHost" => \E k, signer \in Keys : Todo(c, resolving, k, signer)
  /\ pc[c] \in {"writeHost", "loadHost"} => resolving \in Hosts
  /\ pc[c] = "copy" =>
       todo[c] = << [file |-> <<"cert", "anchor">>, content |-> CertOf("ca")] >>
  /\ pc[c] \in {"checkServer", "writeServer", "ensured", "copy", "update"} =>
       CertOf("ca") \in Cert

\* The bundle has the CA among the anchors, but for an update that is due.
BundleInv ==
  /\ pc["trust"] = "update" => CertOf("anchor") = CertOf("ca")
  /\ ~updateCut /\ pc["trust"] # "update" /\ CertOf("anchor") \in Cert =>
       bundle = CertOf("anchor")

\* A CA, once it is complete, stays; what it signed fits its key, or is due.
DiskInv ==
  /\ "ca" \notin due
  /\ CertOf("ca") \in Cert => Signed(KeyOf("ca"), CertOf("ca"), KeyOf("ca"))
  /\ \A s \in Leaves : CertOf(s) \in Cert =>
       /\ CertOf("ca") \in Cert /\ CertOf(s).by = KeyOf("ca")
       /\ s \in due \/ CertOf(s).key = KeyOf(s)

\* The certificate that a command replaces is none that counts.
Replacing(c, s) ==
  /\ CertOf(s) \in Cert => s \in due
  /\ Len(todo[c]) = 1 => KeyOf(s) = todo[c][1].content.key

Paired(s) == CertOf(s) \in Cert /\ CertOf(s).key = KeyOf(s)

ReplacingOk(c) ==
  /\ pc[c] = "checkCa" => c \notin regenerated
  /\ pc[c] = "writeCa" => Replacing(c, "ca")
  /\ pc[c] = "checkServer" /\ c \in regenerated => CertOf("server") \notin Cert
  /\ pc[c] = "writeServer" => Replacing(c, "server")
  /\ pc[c] = "ensured" => Paired("server")
  /\ pc[c] = "writeHost" =>
       Replacing(c, resolving) /\ \E k \in Keys : Todo(c, resolving, k, KeyOf("ca"))
  /\ pc[c] = "loadHost" => Paired(resolving)

SignedByCa(pair) == pair # None => Signed(pair.key, pair.cert, KeyOf("ca"))

ServedInv ==
  pc["proxy"] \in Serving =>
    /\ CertOf("ca") \in Cert
    /\ SignedByCa(default) /\ SignedByCa(served) /\ \A h \in Hosts : SignedByCa(cache[h])

\* The variables are functions.
Shapes ==
  /\ disk = [f \in Files |-> disk[f]]
  /\ pc = [c \in Commands |-> pc[c]]
  /\ todo = [c \in Commands |-> todo[c]]
  /\ cache = [h \in Hosts |-> cache[h]]

\* While no two commands ensure certificates at once ...
Sound == Alone /\ BundleInv /\ \A c \in Commands : TodoOk(c)

\* ... and the first CA is the only one.
Strong == DiskInv /\ ServedInv /\ \A c \in Commands : ReplacingOk(c)

CaWhole ==
  KeyOf("ca") # Absent /\ CertOf("ca") # Absent => Signed(KeyOf("ca"), CertOf("ca"), KeyOf("ca"))

ServerWhole ==
  Absent \notin {KeyOf("ca"), CertOf("ca"), KeyOf("server"), CertOf("server")} =>
    Signed(KeyOf("server"), CertOf("server"), KeyOf("ca"))

\* ensure_certs from the first write, or the decision against it, on.
Amid(c) == pc[c] \in {"writeCa", "checkServer", "writeServer"}

ChainOk(c) ==
  /\ pc[c] \in {"checkServer", "writeServer", "ensured"} =>
       Signed(KeyOf("ca"), CertOf("ca"), KeyOf("ca"))
  /\ pc[c] = "writeCa" =>
       c \in regenerated /\ (Len(todo[c]) = 1 => KeyOf("ca") = todo[c][1].content.key)
  /\ pc[c] = "checkServer" => c \in regenerated \/ ServerWhole
  /\ pc[c] = "writeServer" => (Len(todo[c]) = 1 => KeyOf("server") = todo[c][1].content.key)
  /\ pc[c] = "ensured" => ChainOnDisk

\* While no command is cut short, files that are there are a chain.
ChainInv ==
  /\ \A c \in Commands : ChainOk(c)
  /\ (\E c \in Commands : Amid(c)) \/ (CaWhole /\ ServerWhole)

CertInv ==
  /\ Shapes
  /\ ~overlapped => Sound
  /\ ~overlapped /\ ~cut => ChainInv
  /\ ~overlapped /\ ~removed /\ ~caExpired => Strong

-------------------------------------------------------------------------------
(* The same for the types                                                   *)

\* The files hold what belongs there, and only a certificate comes to its date.
DiskType ==
  /\ disk \in [Files -> Contents]
  /\ \A f \in Files : /\ disk[f] \in Keys => f[1] = "key"
                      /\ disk[f] \in Cert => f[1] = "cert"
  /\ due \subseteq {s \in Subjects : CertOf(s) \in Cert \cup {Torn}}
  /\ bundle \in Cert \cup {Absent, Torn, None}

Writing == {"writeCa", "writeServer", "writeHost", "copy"}

\* What a command has left to write, whoever else is at it.
PhaseFits(c) ==
  /\ pc[c] \notin Writing => todo[c] = <<>>
  /\ pc[c] = "writeCa" => \E k \in Keys : Todo(c, "ca", k, k)
  /\ pc[c] = "writeServer" => \E k, signer \in Keys : Todo(c, "server", k, signer)
  /\ pc[c] = "writeHost" => \E k, signer \in Keys : Todo(c, resolving, k, signer)
  /\ pc[c] = "copy" =>
       \E x \in Cert \cup {Torn} : todo[c] = << [file |-> <<"cert", "anchor">>, content |-> x] >>

PhaseType ==
  /\ pc \in [Commands -> {"idle", "trusted"} \cup Ensuring \cup Trusting \cup Serving]
  /\ pc["trust"] \notin Serving
  /\ \A c \in Commands : PhaseFits(c)
  /\ opened \subseteq {c \in Commands : todo[c] # <<>>}
  /\ regenerated \subseteq Commands

ResolverType ==
  /\ resolving \in Optional(Hosts)
  /\ (resolving # None) <=> (pc["proxy"] \in {"writeHost", "loadHost"})
  /\ default \in Optional(CertifiedKey) /\ served \in Optional(CertifiedKey)
  /\ \A h \in Hosts : cache[h] \in Optional(CertifiedKey)
  /\ (default # None) <=> (pc["proxy"] \in Serving)

HistoryType ==
  /\ overlapped \in BOOLEAN /\ cut \in BOOLEAN /\ removed \in BOOLEAN
  /\ caExpired \in BOOLEAN /\ updateCut \in BOOLEAN
  /\ mishaps \in 0..MaxMishaps

TypeInv == Shapes /\ DiskType /\ PhaseType /\ ResolverType /\ HistoryType
===============================================================================
