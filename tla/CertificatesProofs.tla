-------------------------- MODULE CertificatesProofs --------------------------
(***************************************************************************)
(* What ensure_certs leaves, what a running proxy serves and what          *)
(* `nsl trust` installs, and the types, for any hostnames, keys, size of   *)
(* the cache and number of mishaps.                                        *)
(***************************************************************************)
EXTENDS Certificates, TLAPS

LEMMA InitInv == Init => CertInv
<1> USE DEF Init
<1> SUFFICES ASSUME Init PROVE CertInv
  OBVIOUS
<1>1. Shapes
  BY DEF Shapes
<1>2. \A s \in Subjects \cup {"anchor"} : CertOf(s) \notin Cert
  BY MarksAssumption DEF CertOf, Files, Subjects
<1>3. Sound
  BY <1>2 DEF Sound, Alone, Busy, Ensuring, Trusting, Serving, BundleInv, TodoOk, Commands, Subjects
<1>4. Strong
  BY <1>2 DEF Strong, DiskInv, ServedInv, ReplacingOk, Serving, Commands, Subjects, Leaves
<1>5. ChainInv
  BY MarksAssumption
  DEF ChainInv, ChainOk, CaWhole, ServerWhole, KeyOf, CertOf, Files, Subjects, Commands
<1> QED
  BY <1>1, <1>3, <1>4, <1>5 DEF CertInv

\* The variables stay functions.
LEMMA ShapesStep == Shapes /\ [Next]_vars => Shapes'
<1> SUFFICES ASSUME Shapes, [Next]_vars PROVE Shapes'
  OBVIOUS
<1> USE DEF Shapes, commands, resolver, history
<1>1. ASSUME NEW c \in Commands, Begin(c) \/ CheckCa(c) \/ CheckServer(c) PROVE Shapes'
  BY <1>1 DEF Begin, CheckCa, CheckServer, Goto, Generate
<1>2. ASSUME NEW c \in Commands, Truncate(c) \/ WriteFile(c) PROVE Shapes'
  BY <1>2 DEF Truncate, WriteFile, Goto
<1>3. ASSUME NEW c \in Commands, WriteFails(c) \/ Kill(c) PROVE Shapes'
  BY <1>3 DEF WriteFails, Kill, Goto, Abandon
<1>4. CASE StartServing \/ ServeDefault \/ LoadHostCert
  BY <1>4 DEF StartServing, ServeDefault, LoadHostCert, Goto, Remember
<1>5. ASSUME NEW h \in Hosts, ServeCached(h) \/ ServeFromDisk(h) \/ GenerateHostCert(h)
      PROVE  Shapes'
  BY <1>5 DEF ServeCached, ServeFromDisk, GenerateHostCert, Goto, Generate, Remember
<1>6. CASE TrustCa \/ UpdateBundle
  BY <1>6 DEF TrustCa, UpdateBundle, Goto
<1>7. CASE \E f \in Files : RemoveFile(f)
  BY <1>7 DEF RemoveFile
<1>8. CASE (\E s \in Subjects : Expire(s)) \/ UNCHANGED vars
  BY <1>8 DEF Expire, vars
<1> QED
  BY <1>1, <1>2, <1>3, <1>4, <1>5, <1>6, <1>7, <1>8 DEF Next

-------------------------------------------------------------------------------
(* Steps that leave the files alone                                         *)

\* Every command but c stands where it stood.
OthersStand(c) ==
  /\ \A d \in Commands \ {c} :
       pc'[d] = pc[d] /\ todo'[d] = todo[d] /\ (d \in regenerated' <=> d \in regenerated)
  /\ c = "proxy" \/ resolving' = resolving

LEMMA MoveIsSound ==
  ASSUME NEW c \in Commands, Sound, UNCHANGED disk, OthersStand(c),
         Alone', BundleInv', TodoOk(c)'
  PROVE  Sound'
<1> SUFFICES ASSUME NEW d \in Commands \ {c} PROVE TodoOk(d)'
  BY DEF Sound
<1>1. TodoOk(d) /\ (resolving' = resolving \/ pc[d] \notin Serving)
  BY DEF Sound, Alone, OthersStand, Commands
<1> QED
  BY <1>1 DEF OthersStand, TodoOk, Todo, KeyOf, CertOf, Serving

LEMMA MoveIsStrong ==
  ASSUME NEW c \in Commands, Sound, Strong, UNCHANGED <<disk, due>>, OthersStand(c),
         ServedInv', ReplacingOk(c)'
  PROVE  Strong'
<1>1. DiskInv'
  BY DEF Strong, DiskInv, KeyOf, CertOf, Signed
<1>2. ASSUME NEW d \in Commands \ {c} PROVE ReplacingOk(d)'
  <2>1. ReplacingOk(d) /\ (resolving' = resolving \/ pc[d] \notin Serving)
    BY DEF Sound, Strong, Alone, OthersStand, Commands
  <2> QED
    BY <2>1 DEF OthersStand, ReplacingOk, Replacing, Paired, Todo, KeyOf, CertOf, Serving
<1> QED
  BY <1>1, <1>2 DEF Strong

LEMMA AloneStays ==
  ASSUME NEW c \in Commands, Alone, OthersStand(c), Busy(c) \/ ~Busy(c)',
         c = "trust" => pc'[c] \notin Serving,
         c = "proxy" => pc'[c] \notin Trusting \cup {"trusted"}
  PROVE  Alone'
BY DEF Alone, OthersStand, Busy, Commands

LEMMA BundleStays ==
  ASSUME NEW c \in Commands, BundleInv, OthersStand(c), UNCHANGED <<disk, bundle>>,
         updateCut => updateCut', pc[c] = "update" => updateCut', pc'[c] # "update"
  PROVE  BundleInv'
BY DEF BundleInv, CertOf, OthersStand, Commands

LEMMA ServedStays ==
  ASSUME NEW c \in Commands, ServedInv, OthersStand(c), UNCHANGED <<disk, default, cache>>,
         served' \in {served, default},
         c = "proxy" /\ pc'[c] \in Serving => pc[c] \in Serving
  PROVE  ServedInv'
<1>1. pc'["proxy"] \in Serving => pc["proxy"] \in Serving
  BY DEF OthersStand, Commands
<1> QED
  BY <1>1 DEF ServedInv, SignedByCa, Signed, CertOf, KeyOf

LEMMA GotoIs ==
  ASSUME NEW c \in Commands, NEW label, Shapes, Goto(c, label)
  PROVE  pc'[c] = label /\ \A d \in Commands \ {c} : pc'[d] = pc[d]
BY DEF Shapes, Goto

LEMMA NewKeyIsAKey == NewKeys # {} => NewKey \in Keys
BY DEF NewKeys, NewKey

-------------------------------------------------------------------------------
(* ensure_certs                                                             *)

LEMMA BeginKeeps ==
  ASSUME NEW c \in Commands, Shapes, Begin(c), ~overlapped', Sound
  PROVE  Sound' /\ (Strong => Strong')
<1>1. pc'[c] = "checkCa" /\ OthersStand(c) /\ ~overlapped
  BY GotoIs DEF Begin, OthersStand, resolver
<1>2. \A d \in Commands \ {c} : ~Busy(d)
  BY DEF Begin
<1>3. UNCHANGED <<disk, due, bundle, updateCut, default, served, cache>> /\ todo'[c] = todo[c]
  BY DEF Begin, resolver
<1>4. Alone'
  BY <1>1, <1>2 DEF Sound, Alone, Busy, Commands, OthersStand, Serving, Trusting
<1>5. BundleInv'
  BY <1>1, <1>3, BundleStays DEF Sound, Begin
<1>6. TodoOk(c)'
  BY <1>1, <1>3 DEF Sound, TodoOk, Begin
<1>7. ReplacingOk(c)'
  BY <1>1 DEF ReplacingOk, Begin
<1>8. ASSUME Strong PROVE ServedInv'
  BY <1>1, <1>3, <1>8, ServedStays DEF Strong, Serving
<1> QED
  BY <1>1, <1>3, <1>4, <1>5, <1>6, <1>7, <1>8, MoveIsSound, MoveIsStrong

\* A CA that is complete is usable.
LEMMA CaIsUsable == DiskInv /\ CertOf("ca") \in Cert => Usable("ca") /\ KeyOf("ca") \in Keys
<1> SUFFICES ASSUME DiskInv, CertOf("ca") \in Cert PROVE Usable("ca") /\ KeyOf("ca") \in Keys
  OBVIOUS
<1>1. KeyOf("ca") = CertOf("ca").key /\ "ca" \notin due
  BY DEF DiskInv, Signed
<1>2. KeyOf("ca") \in Keys
  BY <1>1 DEF Cert
<1> QED
  BY <1>1, <1>2, MarksAssumption DEF Usable, IsCertValid

LEMMA CheckCaKeeps ==
  ASSUME NEW c \in Commands, Shapes, CheckCa(c), Sound
  PROVE  Sound' /\ (Strong => Strong')
<1>1. pc[c] = "checkCa" /\ pc'[c] \in {"checkServer", "writeCa"} /\ todo[c] = <<>> /\ OthersStand(c)
  BY GotoIs DEF CheckCa, OthersStand, resolver, Generate, Shapes, Sound, TodoOk
<1>2. UNCHANGED <<disk, due, bundle, updateCut, default, served, cache>>
  BY DEF CheckCa, resolver, history
<1>3. Alone'
  BY <1>1, AloneStays DEF Sound, Busy, Serving, Ensuring, Trusting
<1>4. BundleInv'
  BY <1>1, <1>2, BundleStays DEF Sound
<1>5. ASSUME Strong PROVE ServedInv'
  BY <1>1, <1>2, <1>5, ServedStays DEF Strong, Serving
<1>6. CASE Usable("ca") /\ Goto(c, "checkServer") /\ UNCHANGED <<todo, regenerated>>
  <2>1. pc'[c] = "checkServer"
    BY <1>6, GotoIs
  <2>2. TodoOk(c)'
    BY <1>1, <1>2, <1>6, <2>1 DEF TodoOk, Usable, IsCertValid, CertOf
  <2>3. ASSUME Strong PROVE ReplacingOk(c)'
    BY <1>1, <1>6, <2>1, <2>3 DEF Strong, ReplacingOk
  <2> QED
    BY <1>1, <1>2, <1>3, <1>4, <1>5, <2>2, <2>3, MoveIsSound, MoveIsStrong
<1>7. CASE ~Usable("ca") /\ Generate(c, "ca", NewKey, NewKey) /\ Goto(c, "writeCa")
  <2>1. pc'[c] = "writeCa" /\ todo'[c] = PairOfFiles("ca", NewKey, NewKey) /\ NewKey \in Keys
    BY <1>7, GotoIs, NewKeyIsAKey DEF Generate, Shapes
  <2>2. TodoOk(c)'
    BY <2>1 DEF TodoOk, Todo
  <2>3. ASSUME Strong PROVE ReplacingOk(c)'
    <3>1. CertOf("ca")' \notin Cert
      BY <1>2, <1>7, <2>3, CaIsUsable DEF Strong, CertOf
    <3>2. Len(todo'[c]) = 2
      BY <2>1 DEF PairOfFiles
    <3> QED
      BY <2>1, <3>1, <3>2 DEF ReplacingOk, Replacing
  <2> QED
    BY <1>1, <1>2, <1>3, <1>4, <1>5, <2>2, <2>3, MoveIsSound, MoveIsStrong
<1> QED
  BY <1>6, <1>7 DEF CheckCa

\* A certificate in force is usable and fits its key.
LEMMA LeafIsUsable ==
  ASSUME DiskInv, NEW s \in Leaves, CertOf(s) \in Cert, s \notin due
  PROVE  Usable(s) /\ Paired(s)
<1>1. KeyOf(s) = CertOf(s).key
  BY DEF DiskInv
<1>2. KeyOf(s) \in Keys
  BY <1>1 DEF Cert
<1> QED
  BY <1>1, <1>2, MarksAssumption DEF Usable, IsCertValid, Paired

\* A command that has nothing to write and is about nothing.
LEMMA IdleIsOk ==
  ASSUME NEW c \in Commands, pc'[c] \in {"idle", "trusted", "serving"}, todo'[c] = <<>>
  PROVE  TodoOk(c)' /\ ReplacingOk(c)'
BY DEF TodoOk, ReplacingOk

LEMMA CheckServerKeeps ==
  ASSUME NEW c \in Commands, Shapes, CheckServer(c), Sound
  PROVE  Sound' /\ (Strong => Strong')
<1> DEFINE fine == c \notin regenerated /\ Usable("server")
<1>1. /\ pc[c] = "checkServer" /\ pc'[c] \in {"ensured", "writeServer", "idle"}
      /\ todo[c] = <<>> /\ CertOf("ca") \in Cert /\ OthersStand(c)
  BY GotoIs DEF CheckServer, OthersStand, resolver, Generate, Shapes, Sound, TodoOk
<1>2. UNCHANGED <<disk, due, bundle, updateCut, default, served, cache, regenerated>>
  BY DEF CheckServer, resolver, history
<1>3. Alone'
  BY <1>1, AloneStays DEF Sound, Busy, Serving, Ensuring, Trusting
<1>4. BundleInv'
  BY <1>1, <1>2, BundleStays DEF Sound
<1>5. ASSUME Strong PROVE ServedInv'
  BY <1>1, <1>2, <1>5, ServedStays DEF Strong, Serving
<1>6. SUFFICES TodoOk(c)' /\ (Strong => ReplacingOk(c)')
  BY <1>1, <1>2, <1>3, <1>4, <1>5, MoveIsSound, MoveIsStrong
<1>7. CASE fine /\ Goto(c, "ensured") /\ UNCHANGED todo
  <2>1. pc'[c] = "ensured"
    BY <1>7, GotoIs
  <2>2. TodoOk(c)'
    BY <1>1, <1>2, <1>7, <2>1 DEF TodoOk, CertOf
  <2>3. ASSUME Strong PROVE ReplacingOk(c)'
    <3>1. Paired("server")
      BY <1>7, <2>3, LeafIsUsable DEF Strong, Usable, IsCertValid, Leaves
    <3> QED
      BY <1>2, <2>1, <3>1 DEF ReplacingOk, Paired, CertOf, KeyOf
  <2> QED
    BY <2>2, <2>3
<1>8. CASE ~fine /\ CaLoads /\ Generate(c, "server", NewKey, KeyOf("ca")) /\ Goto(c, "writeServer")
  <2>1. pc'[c] = "writeServer" /\ todo'[c] = PairOfFiles("server", NewKey, KeyOf("ca"))
    BY <1>8, GotoIs DEF Generate, Shapes
  <2>2. NewKey \in Keys /\ KeyOf("ca") \in Keys
    BY <1>8, NewKeyIsAKey DEF Generate, CaLoads
  <2>3. TodoOk(c)'
    BY <1>1, <1>2, <2>1, <2>2 DEF TodoOk, Todo, CertOf, KeyOf
  <2>4. ASSUME Strong PROVE ReplacingOk(c)'
    <3>1. CertOf("server") \in Cert => "server" \in due
      BY <1>1, <1>8, <2>4, LeafIsUsable DEF Strong, ReplacingOk, Leaves
    <3>2. Len(todo'[c]) = 2
      BY <2>1 DEF PairOfFiles
    <3> QED
      BY <1>2, <2>1, <3>1, <3>2 DEF ReplacingOk, Replacing, CertOf
  <2> QED
    BY <2>3, <2>4
<1>9. CASE Goto(c, "idle") /\ UNCHANGED todo
  BY <1>1, <1>9, GotoIs, IdleIsOk
<1> QED
  BY <1>7, <1>8, <1>9 DEF CheckServer

-------------------------------------------------------------------------------
(* The ends of commands                                                     *)

LEMMA WriteFailsKeeps ==
  ASSUME NEW c \in Commands, Shapes, WriteFails(c), Sound
  PROVE  Sound' /\ (Strong => Strong')
<1>1. /\ OthersStand(c) /\ todo[c] # <<>> /\ todo'[c] = <<>>
      /\ pc'[c] = IF pc[c] = "writeHost" THEN "serving" ELSE "idle"
  BY GotoIs DEF WriteFails, Abandon, OthersStand, Shapes
<1>2. /\ UNCHANGED <<disk, due, bundle, updateCut, default, cache>>
      /\ served' \in {served, default}
  BY DEF WriteFails, Abandon
<1>3. pc[c] # "update" /\ (c = "trust" => pc[c] \notin Serving)
  BY <1>1 DEF Sound, TodoOk, Alone
<1>4. Alone'
  BY <1>1, <1>3, AloneStays DEF Sound, Busy, Serving, Ensuring, Trusting
<1>5. BundleInv'
  BY <1>1, <1>2, <1>3, BundleStays DEF Sound
<1>6. ASSUME Strong PROVE ServedInv'
  BY <1>1, <1>2, <1>6, ServedStays DEF Strong, Serving
<1>7. TodoOk(c)' /\ ReplacingOk(c)'
  BY <1>1, IdleIsOk
<1> QED
  BY <1>1, <1>2, <1>4, <1>5, <1>6, <1>7, MoveIsSound, MoveIsStrong

LEMMA KillKeeps ==
  ASSUME NEW c \in Commands, Shapes, Kill(c), Sound
  PROVE  Sound' /\ (Strong => Strong')
<1>1. OthersStand(c) /\ todo'[c] = <<>> /\ pc'[c] = "idle"
  BY GotoIs DEF Kill, Abandon, OthersStand, Shapes
<1>2. /\ UNCHANGED <<disk, due, bundle, cache>>
      /\ updateCut' = (updateCut \/ pc[c] = "update")
      /\ c = "proxy" \/ UNCHANGED <<default, served>>
  BY DEF Kill, Abandon
<1>3. Alone'
  BY <1>1, AloneStays DEF Sound, Busy, Serving, Ensuring, Trusting
<1>4. BundleInv'
  BY <1>1, <1>2, BundleStays DEF Sound
<1>5. ASSUME Strong PROVE ServedInv'
  <2>1. CASE c = "proxy"
    BY <1>1, <2>1 DEF ServedInv, Serving
  <2>2. CASE c # "proxy"
    BY <1>1, <1>2, <1>5, <2>2, ServedStays DEF Strong
  <2> QED
    BY <2>1, <2>2
<1>6. TodoOk(c)' /\ ReplacingOk(c)'
  BY <1>1, IdleIsOk
<1> QED
  BY <1>1, <1>2, <1>3, <1>4, <1>5, <1>6, MoveIsSound, MoveIsStrong

-------------------------------------------------------------------------------
(* trust_ca                                                                 *)

LEMMA TrustCaKeeps ==
  ASSUME Shapes, TrustCa, Sound
  PROVE  Sound' /\ (Strong => Strong')
<1> DEFINE c == "trust"
<1>1. /\ c \in Commands /\ OthersStand(c) /\ pc[c] = "ensured"
      /\ pc'[c] \in {"trusted", "copy", "idle"} /\ todo[c] = <<>> /\ CertOf("ca") \in Cert
  BY GotoIs DEF TrustCa, OthersStand, resolver, Shapes, Commands, Sound, TodoOk
<1>2. UNCHANGED <<disk, due, bundle, updateCut, default, served, cache, regenerated>>
  BY DEF TrustCa, resolver, history
<1>3. Alone'
  BY <1>1, AloneStays DEF Sound, Busy, Serving, Ensuring, Trusting
<1>4. BundleInv'
  BY <1>1, <1>2, BundleStays DEF Sound
<1>5. ASSUME Strong PROVE ServedInv'
  BY <1>1, <1>2, <1>5, ServedStays DEF Strong
<1>6. CASE todo' = todo /\ pc'[c] \in {"trusted", "idle"}
  BY <1>1, <1>2, <1>3, <1>4, <1>5, <1>6, IdleIsOk, MoveIsSound, MoveIsStrong
<1>7. CASE /\ todo' = [todo EXCEPT ![c] =
                         << [file |-> <<"cert", "anchor">>, content |-> CertOf("ca")] >>]
           /\ pc'[c] = "copy"
  <2>1. todo'[c] = << [file |-> <<"cert", "anchor">>, content |-> CertOf("ca")'] >>
    BY <1>1, <1>2, <1>7 DEF Shapes, CertOf
  <2>2. TodoOk(c)'
    BY <1>1, <1>2, <1>7, <2>1 DEF TodoOk, CertOf
  <2>3. ReplacingOk(c)'
    BY <1>7 DEF ReplacingOk
  <2> QED
    BY <1>1, <1>2, <1>3, <1>4, <1>5, <2>2, <2>3, MoveIsSound, MoveIsStrong
<1> QED
  BY <1>1, <1>6, <1>7, GotoIs DEF TrustCa

LEMMA UpdateBundleKeeps ==
  ASSUME Shapes, UpdateBundle, Sound
  PROVE  Sound' /\ (Strong => Strong')
<1> DEFINE c == "trust"
<1>1. /\ c \in Commands /\ OthersStand(c) /\ pc[c] = "update"
      /\ pc'[c] \in {"trusted", "idle"} /\ todo'[c] = <<>>
  BY GotoIs DEF UpdateBundle, OthersStand, resolver, Commands, Sound, TodoOk
<1>2. UNCHANGED <<disk, due, default, served, cache>>
  BY DEF UpdateBundle, resolver
<1>3. Alone'
  BY <1>1, AloneStays DEF Sound, Busy, Serving, Ensuring, Trusting
<1>4. BundleInv'
  BY <1>1, <1>2 DEF UpdateBundle, BundleInv, CertOf
<1>5. ASSUME Strong PROVE ServedInv'
  BY <1>1, <1>2, <1>5, ServedStays DEF Strong
<1> QED
  BY <1>1, <1>2, <1>3, <1>4, <1>5, IdleIsOk, MoveIsSound, MoveIsStrong

-------------------------------------------------------------------------------
(* SniCertResolver                                                          *)

\* What is loaded from a pair of files in force is signed by the CA.
LEMMA LoadedIsSigned ==
  ASSUME DiskInv, NEW s \in Leaves, Paired(s)
  PROVE  SignedByCa(Loaded(s))
BY DEF DiskInv, Paired, SignedByCa, Signed, Loaded

\* So is what the cache has after a certificate was put there.
LEMMA RememberedIsSigned ==
  ASSUME Shapes, NEW h \in Hosts, NEW pair, Remember(h, pair), SignedByCa(pair),
         \A g \in Hosts : SignedByCa(cache[g]), UNCHANGED disk
  PROVE  \A g \in Hosts : SignedByCa(cache[g])'
<1>1. \A g \in Hosts : cache'[g] \in {pair, cache[g]}
  BY DEF Remember, Shapes
<1> QED
  BY <1>1 DEF SignedByCa, Signed, KeyOf

LEMMA ServeKeeps ==
  ASSUME Sound, ServeDefault \/ \E h \in Hosts : ServeCached(h)
  PROVE  Sound' /\ (Strong => Strong')
<1>1. /\ UNCHANGED <<disk, due, bundle, pc, todo, regenerated, resolving, default, cache, updateCut>>
      /\ pc["proxy"] = "serving"
      /\ served' = default \/ \E h \in Hosts : served' = cache[h]
  BY DEF ServeDefault, ServeCached, commands, history
<1>2. Sound'
  BY <1>1 DEF Sound, Alone, Busy, BundleInv, TodoOk, Todo, KeyOf, CertOf
<1>3. ASSUME Strong PROVE Strong'
  <2>1. ServedInv'
    BY <1>1, <1>3 DEF Strong, ServedInv, Serving, SignedByCa, Signed, KeyOf, CertOf
  <2>2. DiskInv' /\ \A c \in Commands : ReplacingOk(c)'
    BY <1>1, <1>3
    DEF Strong, DiskInv, Signed, ReplacingOk, Replacing, Paired, Todo, KeyOf, CertOf
  <2> QED
    BY <2>1, <2>2 DEF Strong
<1> QED
  BY <1>2, <1>3

LEMMA ServeFromDiskKeeps ==
  ASSUME NEW h \in Hosts, Shapes, ServeFromDisk(h), Sound
  PROVE  Sound' /\ (Strong => Strong')
<1>1. /\ UNCHANGED <<disk, due, bundle, pc, todo, regenerated, resolving, default, updateCut>>
      /\ pc["proxy"] = "serving" /\ served' = Loaded(h) /\ Remember(h, Loaded(h))
      /\ Usable(h)
  BY DEF ServeFromDisk, commands, history
<1>2. Sound'
  BY <1>1 DEF Sound, Alone, Busy, BundleInv, TodoOk, Todo, KeyOf, CertOf
<1>3. ASSUME Strong PROVE Strong'
  <2>1. SignedByCa(Loaded(h))
    BY <1>1, <1>3, LeafIsUsable, LoadedIsSigned DEF Strong, Usable, IsCertValid, Leaves
  <2>2. ServedInv
    BY <1>3 DEF Strong
  <2>3. \A g \in Hosts : SignedByCa(cache[g])'
    BY <1>1, <2>1, <2>2, RememberedIsSigned DEF ServedInv, Serving
  <2>4. ServedInv'
    BY <1>1, <2>1, <2>2, <2>3 DEF ServedInv, Serving, SignedByCa, Signed, KeyOf, CertOf
  <2>5. DiskInv' /\ \A c \in Commands : ReplacingOk(c)'
    BY <1>1, <1>3
    DEF Strong, DiskInv, Signed, ReplacingOk, Replacing, Paired, Todo, KeyOf, CertOf
  <2> QED
    BY <2>4, <2>5 DEF Strong
<1> QED
  BY <1>2, <1>3

LEMMA StartServingKeeps ==
  ASSUME Shapes, StartServing, Sound
  PROVE  Sound' /\ (Strong => Strong')
<1> DEFINE c == "proxy"
<1>1. /\ c \in Commands /\ OthersStand(c) /\ pc[c] = "ensured"
      /\ pc'[c] \in {"serving", "idle"} /\ todo'[c] = <<>> /\ CertOf("ca") \in Cert
  BY GotoIs DEF StartServing, OthersStand, Commands, Sound, TodoOk
<1>2. UNCHANGED <<disk, due, bundle, updateCut>>
  BY DEF StartServing, history
<1>3. Alone'
  BY <1>1, AloneStays DEF Sound, Busy, Serving, Ensuring, Trusting
<1>4. BundleInv'
  BY <1>1, <1>2, BundleStays DEF Sound
<1>5. ASSUME Strong PROVE ServedInv'
  <2>1. CASE pc'[c] = "idle"
    BY <2>1 DEF ServedInv, Serving
  <2>2. CASE default' = Loaded("server") /\ cache' = [h \in Hosts |-> None] /\ served' = None
    <3>1. SignedByCa(Loaded("server"))
      BY <1>1, <1>5, LoadedIsSigned DEF Strong, ReplacingOk, Leaves
    <3> QED
      BY <1>1, <1>2, <2>2, <3>1 DEF ServedInv, SignedByCa, Signed, KeyOf, CertOf
  <2> QED
    BY <1>1, <2>1, <2>2, GotoIs DEF StartServing
<1> QED
  BY <1>1, <1>2, <1>3, <1>4, <1>5, IdleIsOk, MoveIsSound, MoveIsStrong

LEMMA GenerateHostCertKeeps ==
  ASSUME NEW h \in Hosts, Shapes, GenerateHostCert(h), Sound
  PROVE  Sound' /\ (Strong => Strong')
<1> DEFINE c == "proxy"
<1>1. /\ c \in Commands /\ OthersStand(c) /\ pc[c] = "serving"
      /\ pc'[c] \in {"serving", "writeHost"} /\ todo[c] = <<>>
  BY GotoIs DEF GenerateHostCert, Generate, OthersStand, Commands, Shapes, Sound, TodoOk
<1>2. /\ UNCHANGED <<disk, due, bundle, updateCut, default, cache, regenerated>>
      /\ served' \in {served, default}
  BY DEF GenerateHostCert, history
<1>3. Alone'
  BY <1>1, AloneStays DEF Sound, Busy, Serving, Ensuring, Trusting
<1>4. BundleInv'
  BY <1>1, <1>2, BundleStays DEF Sound
<1>5. ASSUME Strong PROVE ServedInv'
  BY <1>1, <1>2, <1>5, ServedStays DEF Strong, Serving
<1>6. CASE UNCHANGED <<pc, todo, resolving>>
  BY <1>1, <1>2, <1>3, <1>4, <1>5, <1>6, IdleIsOk, MoveIsSound, MoveIsStrong
<1>7. CASE /\ CaLoads /\ Generate(c, h, NewKey, KeyOf("ca"))
           /\ resolving' = h /\ Goto(c, "writeHost")
  <2>1. pc'[c] = "writeHost" /\ todo'[c] = PairOfFiles(h, NewKey, KeyOf("ca"))
    BY <1>1, <1>7, GotoIs DEF Generate, Shapes
  <2>2. NewKey \in Keys /\ KeyOf("ca") \in Keys
    BY <1>7, NewKeyIsAKey DEF Generate, CaLoads
  <2>3. TodoOk(c)'
    BY <1>7, <2>1, <2>2 DEF TodoOk, Todo
  <2>4. ASSUME Strong PROVE ReplacingOk(c)'
    <3>1. CertOf(h) \in Cert => h \in due
      <4> SUFFICES ASSUME CertOf(h) \in Cert, h \notin due PROVE FALSE
        OBVIOUS
      <4>1. Usable(h) /\ Paired(h)
        BY <2>4, LeafIsUsable DEF Strong, Leaves
      <4>2. Loads(h)
        BY <4>1 DEF Loads, Paired, Cert
      <4> QED
        BY <4>1, <4>2 DEF GenerateHostCert
    <3>2. Len(todo'[c]) = 2
      BY <2>1 DEF PairOfFiles
    <3>3. \E k \in Keys : Todo(c, resolving, k, KeyOf("ca"))'
      BY <1>2, <1>7, <2>1, <2>2 DEF Todo, KeyOf
    <3> QED
      BY <1>2, <1>7, <2>1, <3>1, <3>2, <3>3 DEF ReplacingOk, Replacing, CertOf
  <2> QED
    BY <1>1, <1>2, <1>3, <1>4, <1>5, <2>3, <2>4, MoveIsSound, MoveIsStrong
<1> QED
  BY <1>6, <1>7 DEF GenerateHostCert

LEMMA LoadHostCertKeeps ==
  ASSUME Shapes, LoadHostCert, Sound
  PROVE  Sound' /\ (Strong => Strong')
<1> DEFINE c == "proxy"
<1>1. /\ c \in Commands /\ OthersStand(c) /\ pc[c] = "loadHost"
      /\ pc'[c] = "serving" /\ todo'[c] = <<>> /\ resolving \in Hosts
  BY GotoIs DEF LoadHostCert, OthersStand, Commands, Sound, TodoOk
<1>2. UNCHANGED <<disk, due, bundle, updateCut, default>>
  BY DEF LoadHostCert, history
<1>3. Alone'
  BY <1>1, AloneStays DEF Sound, Busy, Serving, Ensuring, Trusting
<1>4. BundleInv'
  BY <1>1, <1>2, BundleStays DEF Sound
<1>5. ASSUME Strong PROVE ServedInv'
  <2>1. CASE served' = default /\ UNCHANGED cache
    BY <1>1, <1>2, <1>5, <2>1, ServedStays DEF Strong, Serving
  <2>2. CASE served' = Loaded(resolving) /\ Remember(resolving, Loaded(resolving))
    <3>1. SignedByCa(Loaded(resolving))
      BY <1>1, <1>5, LoadedIsSigned DEF Strong, ReplacingOk, Leaves
    <3>2. CertOf("ca") \in Cert /\ SignedByCa(default) /\ \A g \in Hosts : SignedByCa(cache[g])
      BY <1>1, <1>5 DEF Strong, ServedInv, Serving
    <3>3. \A g \in Hosts : SignedByCa(cache[g])'
      BY <1>1, <1>2, <2>2, <3>1, <3>2, RememberedIsSigned
    <3> QED
      BY <1>2, <2>2, <3>1, <3>2, <3>3 DEF ServedInv, SignedByCa, Signed, KeyOf, CertOf
  <2> QED
    BY <2>1, <2>2 DEF LoadHostCert
<1> QED
  BY <1>1, <1>2, <1>3, <1>4, <1>5, IdleIsOk, MoveIsSound, MoveIsStrong

-------------------------------------------------------------------------------
(* Writes                                                                   *)

Put(f, x) == disk' = [disk EXCEPT ![f] = x]

LEMMA KeyPut ==
  ASSUME Shapes, NEW s \in Subjects, NEW x, Put(<<"key", s>>, x)
  PROVE  /\ KeyOf(s)' = x
         /\ \A t \in Subjects \ {s} : KeyOf(t)' = KeyOf(t)
         /\ \A t \in Subjects \cup {"anchor"} : CertOf(t)' = CertOf(t)
<1> DEFINE D == [disk EXCEPT ![<<"key", s>>] = x]
<1>1. \A f \in Files : D[f] = IF f = <<"key", s>> THEN x ELSE disk[f]
  BY DEF Shapes
<1> HIDE DEF D
<1>2. disk' = D
  BY DEF Put, D
<1>3. \A t \in Subjects : <<"key", t>> \in Files /\ (<<"key", t>> = <<"key", s>> => t = s)
  BY DEF Files
<1>4. \A t \in Subjects \cup {"anchor"} : <<"cert", t>> \in Files /\ <<"cert", t>> # <<"key", s>>
  BY DEF Files
<1> QED
  BY <1>1, <1>2, <1>3, <1>4 DEF KeyOf, CertOf

LEMMA CertPut ==
  ASSUME Shapes, NEW s \in Subjects \cup {"anchor"}, NEW x, Put(<<"cert", s>>, x)
  PROVE  /\ CertOf(s)' = x
         /\ \A t \in (Subjects \cup {"anchor"}) \ {s} : CertOf(t)' = CertOf(t)
         /\ \A t \in Subjects : KeyOf(t)' = KeyOf(t)
<1> DEFINE D == [disk EXCEPT ![<<"cert", s>>] = x]
<1>1. \A f \in Files : D[f] = IF f = <<"cert", s>> THEN x ELSE disk[f]
  BY DEF Shapes
<1> HIDE DEF D
<1>2. disk' = D
  BY DEF Put, D
<1>3. \A t \in Subjects : <<"key", t>> \in Files /\ <<"key", t>> # <<"cert", s>>
  BY DEF Files
<1>4. \A t \in Subjects \cup {"anchor"} :
        <<"cert", t>> \in Files /\ (<<"cert", t>> = <<"cert", s>> => t = s)
  BY DEF Files
<1> QED
  BY <1>1, <1>2, <1>3, <1>4 DEF KeyOf, CertOf

\* The pair of files that a command writes.
Writes(c, s) ==
  \/ pc[c] = "writeCa" /\ s = "ca"
  \/ pc[c] = "writeServer" /\ s = "server"
  \/ pc[c] = "writeHost" /\ s = resolving /\ s \in Hosts

LEMMA NamesDiffer == "anchor" \notin Subjects /\ Leaves = Subjects \ {"ca"}
BY HostsAssumption DEF Subjects, Leaves

\* The other command is about other files.
LEMMA OtherIsSound ==
  ASSUME Sound, NEW c \in Commands, NEW s \in Subjects, Writes(c, s), OthersStand(c),
         UNCHANGED resolving,
         s # "ca" => UNCHANGED <<KeyOf("ca"), CertOf("ca")>>
  PROVE  \A d \in Commands \ {c} : TodoOk(d)'
<1> SUFFICES ASSUME NEW d \in Commands \ {c} PROVE TodoOk(d)'
  OBVIOUS
<1>1. s = "ca" => Busy(c) /\ ~Busy(d)
  BY HostsAssumption DEF Writes, Sound, Alone, Busy, Ensuring, Commands
<1>2. TodoOk(d) /\ pc'[d] = pc[d] /\ todo'[d] = todo[d]
  BY DEF Sound, OthersStand
<1>3. CASE s = "ca"
  <2>1. pc[d] \notin {"checkServer", "writeServer", "ensured", "copy", "update", "writeCa"}
    BY <1>1, <1>3 DEF Busy, Ensuring, Trusting
  <2> QED
    BY <1>2, <2>1 DEF TodoOk, Todo
<1>4. CASE s # "ca"
  BY <1>2, <1>4 DEF TodoOk, Todo
<1> QED
  BY <1>3, <1>4

LEMMA OtherIsStrong ==
  ASSUME Sound, Strong, NEW c \in Commands, NEW s \in Subjects, Writes(c, s), OthersStand(c),
         UNCHANGED resolving,
         \A t \in Subjects \ {s} :
           KeyOf(t)' = KeyOf(t) /\ CertOf(t)' = CertOf(t) /\ (t \in due' <=> t \in due)
  PROVE  \A d \in Commands \ {c} : ReplacingOk(d)'
<1> SUFFICES ASSUME NEW d \in Commands \ {c} PROVE ReplacingOk(d)'
  OBVIOUS
<1>1. /\ ReplacingOk(d) /\ pc'[d] = pc[d] /\ todo'[d] = todo[d]
      /\ d \in regenerated' <=> d \in regenerated
  BY DEF Strong, OthersStand
<1>2. CASE Busy(d)
  <2>1. c = "proxy" /\ s \in Hosts /\ pc[d] \notin Serving
    BY <1>2 DEF Writes, Sound, Alone, Busy, Ensuring, Trusting, Commands, Serving
  <2>2. "ca" \in Subjects \ {s} /\ "server" \in Subjects \ {s}
    BY <2>1, HostsAssumption DEF Subjects
  <2> QED
    BY <1>1, <2>1, <2>2 DEF ReplacingOk, Replacing, Paired, Serving
<1>3. CASE pc[d] \in Serving
  <2>1. d = "proxy" /\ s \in {"ca", "server"}
    BY <1>3 DEF Sound, Alone, Commands, Writes, Serving
  <2>2. CertOf("ca") \in Cert /\ "ca" \notin due
    BY <1>3, <2>1 DEF Strong, ServedInv, DiskInv
  <2>3. s = "server"
    BY <2>1, <2>2, HostsAssumption DEF Strong, Writes, ReplacingOk, Replacing
  <2>4. "ca" \in Subjects \ {s}
    BY <2>3 DEF Subjects
  <2>5. pc[d] \in {"writeHost", "loadHost"} => resolving \in Subjects \ {s}
    BY <2>3, HostsAssumption DEF Sound, TodoOk, Subjects
  <2> QED
    BY <1>1, <1>3, <2>4, <2>5 DEF ReplacingOk, Replacing, Paired, Serving, Todo
<1>4. CASE ~Busy(d) /\ pc[d] \notin Serving
  BY <1>1, <1>4 DEF Busy, Serving, Ensuring, ReplacingOk
<1> QED
  BY <1>2, <1>3, <1>4

\* The CA is only written while there is none, and no certificate under it.
LEMMA NoCaYet ==
  ASSUME Strong, NEW c \in Commands, Writes(c, "ca")
  PROVE  /\ CertOf("ca") \notin Cert /\ pc["proxy"] \notin Serving
         /\ \A s \in Leaves : CertOf(s) \notin Cert
<1>1. pc[c] = "writeCa"
  BY HostsAssumption DEF Writes
<1>2. CertOf("ca") \notin Cert
  BY <1>1 DEF Strong, ReplacingOk, Replacing, DiskInv
<1> QED
  BY <1>2 DEF Strong, DiskInv, ServedInv

LEMMA Replaces ==
  ASSUME Strong, NEW c \in Commands, NEW s \in Subjects, Writes(c, s)
  PROVE  Replacing(c, s)
BY DEF Strong, ReplacingOk, Writes

\* A key is truncated or written.
LEMMA KeyChanges ==
  ASSUME Shapes, Sound, NEW c \in Commands, NEW s \in Subjects, NEW x, Writes(c, s),
         OthersStand(c), Put(<<"key", s>>, x), pc'[c] = pc[c],
         UNCHANGED <<due, bundle, regenerated, resolver, updateCut>>,
         \A k, signer \in Keys : Todo(c, s, k, signer) => Todo(c, s, k, signer)',
         Len(todo'[c]) = 1 => x = todo'[c][1].content.key
  PROVE  Sound' /\ (Strong => Strong')
<1>1. /\ KeyOf(s)' = x
      /\ \A t \in Subjects \ {s} : KeyOf(t)' = KeyOf(t)
      /\ \A t \in Subjects \cup {"anchor"} : CertOf(t)' = CertOf(t)
  BY KeyPut
<1>2. s # "ca" => UNCHANGED <<KeyOf("ca"), CertOf("ca")>>
  BY <1>1 DEF Subjects
<1>3. UNCHANGED <<CertOf("ca"), CertOf("anchor"), resolving, default, served, cache>>
  BY <1>1 DEF Subjects, resolver
<1>4. \A d \in Commands : pc'[d] = pc[d]
  BY DEF OthersStand
<1>5. Alone'
  BY <1>4 DEF Sound, Alone, Busy, Commands
<1>6. BundleInv'
  BY <1>3, <1>4 DEF Sound, BundleInv, Commands
<1>7. TodoOk(c)'
  BY <1>2, <1>3, HostsAssumption DEF Sound, TodoOk, Writes
<1>8. Sound'
  BY <1>2, <1>3, <1>5, <1>6, <1>7, OtherIsSound DEF Sound
<1>9. ASSUME Strong PROVE Strong'
  <2>1. Replacing(c, s) /\ (s = "ca" => Writes(c, "ca"))
    BY <1>9, Replaces
  <2>2. Replacing(c, s)'
    BY <1>1, <2>1 DEF Replacing
  <2>3. ReplacingOk(c)'
    <3>1. CASE pc[c] = "writeHost"
      <4>1. s = resolving /\ s \in Hosts /\ s # "ca"
        BY <3>1, HostsAssumption DEF Writes
      <4>2. PICK k \in Keys : Todo(c, s, k, KeyOf("ca"))
        BY <1>9, <3>1, <4>1 DEF Strong, ReplacingOk
      <4>3. KeyOf("ca") \in Keys
        BY <1>9, <3>1 DEF Strong, ServedInv, DiskInv, Serving, Signed, Cert, Sound, Alone, Commands
      <4>4. Todo(c, resolving, k, KeyOf("ca"))'
        BY <1>2, <1>3, <4>1, <4>2, <4>3 DEF Todo
      <4> QED
        BY <1>3, <2>2, <3>1, <4>1, <4>4 DEF ReplacingOk
    <3>2. CASE pc[c] \in {"writeCa", "writeServer"}
      BY <2>2, <3>2 DEF ReplacingOk, Writes
    <3> QED
      BY <3>1, <3>2 DEF Writes
  <2>4. \A d \in Commands \ {c} : ReplacingOk(d)'
    BY <1>1, <1>3, <1>9, OtherIsStrong
  <2>5. ServedInv'
    <3>1. CASE s = "ca"
      BY <1>4, <1>9, <2>1, <3>1, NoCaYet DEF ServedInv, Commands
    <3>2. CASE s # "ca"
      BY <1>2, <1>3, <1>4, <1>9, <3>2
      DEF Strong, ServedInv, SignedByCa, Signed, Commands
    <3> QED
      BY <3>1, <3>2
  <2>6. DiskInv'
    <3>1. CASE s = "ca"
      BY <1>1, <1>3, <1>9, <2>1, <3>1, NoCaYet DEF Strong, DiskInv, Leaves, Subjects
    <3>2. CASE s # "ca"
      BY <1>1, <1>2, <1>3, <1>9, <2>1, <3>2
      DEF Strong, DiskInv, Leaves, Subjects, Signed, Replacing
    <3> QED
      BY <3>1, <3>2
  <2> QED
    BY <2>3, <2>4, <2>5, <2>6 DEF Strong
<1> QED
  BY <1>8, <1>9

\* A certificate is truncated.
LEMMA CertIsTruncated ==
  ASSUME Shapes, Sound, NEW c \in Commands, NEW s \in Subjects, Writes(c, s),
         OthersStand(c), Put(<<"cert", s>>, Torn),
         UNCHANGED <<due, bundle, regenerated, resolver, updateCut, pc, todo>>
  PROVE  Sound' /\ (Strong => Strong')
<1>1. /\ CertOf(s)' \notin Cert
      /\ \A t \in (Subjects \cup {"anchor"}) \ {s} : CertOf(t)' = CertOf(t)
      /\ \A t \in Subjects : KeyOf(t)' = KeyOf(t)
  BY CertPut, MarksAssumption
<1>2. /\ s # "ca" => UNCHANGED <<KeyOf("ca"), CertOf("ca")>>
      /\ UNCHANGED <<KeyOf("ca"), CertOf("anchor"), resolving, default, served, cache>>
  BY <1>1, NamesDiffer DEF Subjects, resolver
<1>3. s = "ca" => Busy(c) /\ pc[c] = "writeCa"
  BY HostsAssumption DEF Writes, Busy, Ensuring
<1>4. Alone'
  BY DEF Sound, Alone, Busy
<1>5. BundleInv'
  BY <1>2, <1>3 DEF Sound, Alone, BundleInv, Busy, Trusting, Commands
<1>6. TodoOk(c)'
  BY <1>2, HostsAssumption DEF Sound, TodoOk, Writes, Todo
<1>7. Sound'
  BY <1>2, <1>4, <1>5, <1>6, OtherIsSound DEF Sound
<1>8. ASSUME Strong PROVE Strong'
  <2>1. Replacing(c, s)'
    BY <1>1, <1>8, Replaces DEF Replacing
  <2>2. ReplacingOk(c)'
    BY <1>2, <1>8, <2>1 DEF Strong, ReplacingOk, Writes, Todo
  <2>3. \A d \in Commands \ {c} : ReplacingOk(d)'
    BY <1>1, <1>2, <1>8, OtherIsStrong
  <2>4. ServedInv'
    <3>1. CASE s = "ca"
      BY <1>8, <3>1, NoCaYet DEF ServedInv
    <3>2. CASE s # "ca"
      BY <1>2, <1>8, <3>2 DEF Strong, ServedInv, SignedByCa, Signed
    <3> QED
      BY <3>1, <3>2
  <2>5. DiskInv'
    <3>1. CASE s = "ca"
      BY <1>1, <1>8, <3>1, NoCaYet DEF Strong, DiskInv, Leaves, Subjects
    <3>2. CASE s # "ca"
      BY <1>1, <1>2, <1>8, <3>2 DEF Strong, DiskInv, Leaves, Subjects, Signed
    <3> QED
      BY <3>1, <3>2
  <2> QED
    BY <2>2, <2>3, <2>4, <2>5 DEF Strong
<1> QED
  BY <1>7, <1>8

\* Whose key signs it is settled before the first write.
LEMMA SignerIs ==
  ASSUME Sound, NEW c \in Commands, NEW s \in Subjects, NEW k \in Keys, NEW signer \in Keys,
         todo[c] = << [file |-> <<"cert", s>>, content |-> [key |-> k, by |-> signer]] >>
  PROVE  /\ \A j, by \in Keys : Todo(c, s, j, by) => signer = by /\ k = j
         /\ pc[c] = "writeCa" /\ s = "ca" => signer = k
         /\ pc[c] = "writeServer" /\ s = "server" => signer = KeyOf("ca")
<1>1. ASSUME NEW j \in Keys, NEW by \in Keys, Todo(c, s, j, by) PROVE signer = by /\ k = j
  <2>1. Len(PairOfFiles(s, j, by)) = 2 /\ Len(todo[c]) = 1
    BY DEF PairOfFiles
  <2>2. todo[c] = Tail(PairOfFiles(s, j, by))
    <3>1. todo[c] \in {PairOfFiles(s, j, by), Tail(PairOfFiles(s, j, by))}
      BY <1>1 DEF Todo
    <3> QED
      BY <2>1, <3>1
  <2>3. todo[c][1].content = [key |-> j, by |-> by]
    BY <2>2 DEF PairOfFiles
  <2> QED
    BY <2>3
<1> QED
  BY <1>1 DEF Sound, TodoOk

\* A certificate is written, the second file of two.
LEMMA CertIsWritten ==
  ASSUME Shapes, Sound, NEW c \in Commands, NEW s \in Subjects, Writes(c, s),
         NEW k \in Keys, NEW signer \in Keys,
         todo[c] = << [file |-> <<"cert", s>>, content |-> [key |-> k, by |-> signer]] >>,
         OthersStand(c), Put(<<"cert", s>>, [key |-> k, by |-> signer]),
         todo'[c] = <<>>, pc'[c] = After(pc[c]), due' = due \ {s},
         UNCHANGED <<bundle, regenerated, resolver, updateCut>>
  PROVE  Sound' /\ (Strong => Strong')
<1> DEFINE new == [key |-> k, by |-> signer]
<1>1. /\ CertOf(s)' = new /\ new \in Cert /\ new.key = k /\ new.by = signer
      /\ \A t \in (Subjects \cup {"anchor"}) \ {s} : CertOf(t)' = CertOf(t)
      /\ \A t \in Subjects : KeyOf(t)' = KeyOf(t)
  BY CertPut DEF Cert
<1>2. /\ s # "ca" => UNCHANGED <<KeyOf("ca"), CertOf("ca")>>
      /\ UNCHANGED <<KeyOf("ca"), CertOf("anchor"), resolving, default, served, cache>>
  BY <1>1, NamesDiffer DEF Subjects, resolver
<1>3. \/ pc[c] = "writeCa" /\ s = "ca" /\ pc'[c] = "checkServer"
      \/ pc[c] = "writeServer" /\ s = "server" /\ pc'[c] = "ensured"
      \/ pc[c] = "writeHost" /\ s = resolving /\ s \in Hosts /\ pc'[c] = "loadHost"
  BY DEF Writes, After
<1>4. s = "ca" => Busy(c) /\ pc[c] = "writeCa"
  BY <1>3, HostsAssumption DEF Busy, Ensuring
<1>5. Alone'
  BY <1>3, AloneStays DEF Sound, Alone, Busy, Ensuring, Trusting, Serving
<1>6. BundleInv'
  BY <1>2, <1>3, <1>4 DEF Sound, Alone, BundleInv, Busy, Trusting, Commands, OthersStand
<1>7. TodoOk(c)'
  BY <1>1, <1>2, <1>3 DEF Sound, TodoOk
<1>8. Sound'
  BY <1>2, <1>5, <1>6, <1>7, OtherIsSound DEF Sound
<1>9. ASSUME Strong PROVE Strong'
  <2>1. KeyOf(s) = k
    <3>1. Len(todo[c]) = 1 /\ todo[c][1].content.key = k
      OBVIOUS
    <3>2. Replacing(c, s)
      BY <1>9, Replaces
    <3> QED
      BY <3>1, <3>2 DEF Replacing
  <2>2. s # "ca" => signer = KeyOf("ca") /\ CertOf("ca") \in Cert
    <3>1. CASE pc[c] = "writeServer"
      BY <1>3, <3>1, SignerIs DEF Sound, TodoOk
    <3>2. CASE pc[c] = "writeHost"
      <4>1. CertOf("ca") \in Cert /\ KeyOf("ca") \in Keys
        BY <1>9, <3>2 DEF Strong, ServedInv, DiskInv, Signed, Cert, Serving, Sound, Alone, Commands
      <4>2. \E j \in Keys : Todo(c, s, j, KeyOf("ca"))
        BY <1>3, <1>9, <3>2 DEF Strong, ReplacingOk
      <4> QED
        BY <4>1, <4>2, SignerIs
    <3> QED
      BY <1>3, <3>1, <3>2
  <2>3. Paired(s)'
    BY <1>1, <2>1 DEF Paired
  <2>4. ReplacingOk(c)'
    <3>1. CASE s = "ca"
      <4>1. CertOf("server")' \notin Cert
        BY <1>1, <1>9, <3>1, NoCaYet DEF Leaves, Subjects
      <4> QED
        BY <1>3, <3>1, <4>1, HostsAssumption DEF ReplacingOk
    <3>2. CASE s # "ca"
      BY <1>2, <1>3, <2>3, <3>2 DEF ReplacingOk
    <3> QED
      BY <3>1, <3>2
  <2>5. \A d \in Commands \ {c} : ReplacingOk(d)'
    BY <1>1, <1>2, <1>9, OtherIsStrong
  <2>6. ServedInv'
    <3>1. CASE s = "ca"
      BY <1>3, <1>9, <3>1, NoCaYet DEF ServedInv, Serving, Commands, OthersStand
    <3>2. CASE s # "ca"
      BY <1>2, <1>3, <1>9, <3>2
      DEF Strong, ServedInv, SignedByCa, Signed, Serving, Commands, OthersStand
    <3> QED
      BY <3>1, <3>2
  <2>7. DiskInv'
    <3>1. CASE s = "ca"
      <4>1. signer = k
        BY <1>4, <3>1, SignerIs
      <4>2. \A t \in Leaves : CertOf(t)' \notin Cert
        <5>1. \A t \in Leaves : CertOf(t) \notin Cert
          BY <1>9, <3>1, NoCaYet
        <5>2. \A t \in Leaves : CertOf(t)' = CertOf(t)
          BY <1>1, <3>1, NamesDiffer
        <5> QED
          BY <5>1, <5>2
      <4> QED
        BY <1>1, <1>9, <2>1, <3>1, <4>1, <4>2 DEF Strong, DiskInv, Signed, Subjects
    <3>2. CASE s # "ca"
      <4>1. "ca" \notin due' /\ CertOf("ca")' \in Cert
        BY <1>2, <1>9, <2>2, <3>2 DEF Strong, DiskInv
      <4>2. Signed(KeyOf("ca"), CertOf("ca"), KeyOf("ca"))'
        BY <1>2, <1>9, <2>2, <3>2 DEF Strong, DiskInv, Signed
      <4>3. ASSUME NEW t \in Leaves, CertOf(t)' \in Cert
            PROVE  CertOf(t)'.by = KeyOf("ca")' /\ (t \in due' \/ CertOf(t)'.key = KeyOf(t)')
        <5>1. CASE t = s
          BY <1>1, <1>2, <2>1, <2>2, <3>2, <5>1
        <5>2. CASE t # s
          BY <1>1, <1>2, <1>9, <4>3, <5>2, NamesDiffer DEF Strong, DiskInv
        <5> QED
          BY <5>1, <5>2
      <4> QED
        BY <4>1, <4>2, <4>3 DEF DiskInv
    <3> QED
      BY <3>1, <3>2
  <2> QED
    BY <2>4, <2>5, <2>6, <2>7 DEF Strong
<1> QED
  BY <1>8, <1>9

\* The copy among the anchors is truncated or written.
LEMMA AnchorChanges ==
  ASSUME Shapes, Sound, NEW c \in Commands, pc[c] = "copy", NEW x,
         OthersStand(c), Put(<<"cert", "anchor">>, x), due' = due \/ due' = due \ {"anchor"},
         UNCHANGED <<bundle, regenerated, resolver, updateCut>>,
         \/ x = Torn /\ UNCHANGED <<pc, todo>>
         \/ x = CertOf("ca") /\ pc'[c] = "update" /\ todo'[c] = <<>>
  PROVE  Sound' /\ (Strong => Strong')
<1>1. /\ CertOf("anchor")' = x
      /\ \A t \in Subjects :
           KeyOf(t)' = KeyOf(t) /\ CertOf(t)' = CertOf(t) /\ (t \in due' <=> t \in due)
  BY CertPut, NamesDiffer
<1>2. UNCHANGED <<KeyOf("ca"), CertOf("ca"), resolving, default, served, cache>>
  BY <1>1 DEF resolver, Subjects
<1>3. c = "trust" /\ CertOf("ca") \in Cert
  BY DEF Sound, Alone, TodoOk, Trusting, Commands
<1>4. pc'[c] \in {"copy", "update"} /\ \A d \in Commands \ {c} : pc'[d] = pc[d]
  BY DEF OthersStand
<1>5. Alone'
  BY <1>3, <1>4, AloneStays DEF Sound, Busy, Trusting, Serving
<1>6. BundleInv'
  BY <1>1, <1>2, <1>3, MarksAssumption DEF BundleInv
<1>7. TodoOk(c)'
  BY <1>2, <1>3 DEF Sound, TodoOk
<1>8. ASSUME NEW d \in Commands \ {c} PROVE TodoOk(d)'
  BY <1>2 DEF Sound, OthersStand, TodoOk, Todo
<1>9. Sound'
  BY <1>5, <1>6, <1>7, <1>8 DEF Sound
<1>10. ASSUME Strong PROVE Strong'
  <2>1. DiskInv'
    BY <1>1, <1>10 DEF Strong, DiskInv, Signed, Leaves, Subjects
  <2>2. ServedInv'
    BY <1>2, <1>3, <1>4, <1>10 DEF Strong, ServedInv, SignedByCa, Signed, Commands
  <2>3. ReplacingOk(c)'
    BY <1>4 DEF ReplacingOk
  <2>4. ASSUME NEW d \in Commands \ {c} PROVE ReplacingOk(d)'
    <3>1. ReplacingOk(d) /\ TodoOk(d) /\ "ca" \in Subjects /\ "server" \in Subjects
      BY <1>10 DEF Sound, Strong, Subjects
    <3>2. pc[d] \in {"writeHost", "loadHost"} => resolving \in Subjects
      BY <3>1 DEF TodoOk, Subjects
    <3> QED
      BY <1>1, <1>2, <3>1, <3>2 DEF OthersStand, ReplacingOk, Replacing, Paired, Todo
  <2> QED
    BY <2>1, <2>2, <2>3, <2>4 DEF Strong
<1> QED
  BY <1>9, <1>10

\* What a command writes next.
LEMMA NextWrite ==
  ASSUME Sound, NEW c \in Commands, todo[c] # <<>>
  PROVE  \/ \E s \in Subjects, k, signer \in Keys :
              Writes(c, s) /\ todo[c] = PairOfFiles(s, k, signer)
         \/ \E s \in Subjects, k, signer \in Keys :
              /\ Writes(c, s)
              /\ todo[c] =
                   << [file |-> <<"cert", s>>, content |-> [key |-> k, by |-> signer]] >>
         \/ /\ pc[c] = "copy"
            /\ todo[c] = << [file |-> <<"cert", "anchor">>, content |-> CertOf("ca")] >>
<1>1. TodoOk(c)
  BY DEF Sound
<1>2. \A s, k, signer :
        Tail(PairOfFiles(s, k, signer)) =
          << [file |-> <<"cert", s>>, content |-> [key |-> k, by |-> signer]] >>
  BY DEF PairOfFiles
<1>3. CASE pc[c] \in {"writeCa", "writeServer", "writeHost"}
  <2>1. PICK s \in Subjects, k \in Keys, signer \in Keys :
          Writes(c, s) /\ Todo(c, s, k, signer)
    <3>1. CASE pc[c] = "writeCa"
      BY <1>1, <3>1 DEF TodoOk, Writes, Subjects
    <3>2. CASE pc[c] = "writeServer"
      BY <1>1, <3>2 DEF TodoOk, Writes, Subjects
    <3>3. CASE pc[c] = "writeHost"
      BY <1>1, <3>3 DEF TodoOk, Writes, Subjects
    <3> QED
      BY <1>3, <3>1, <3>2, <3>3
  <2> QED
    BY <1>2, <2>1 DEF Todo
<1>4. CASE pc[c] = "copy"
  BY <1>1, <1>4 DEF TodoOk
<1> QED
  BY <1>1, <1>3, <1>4 DEF TodoOk

LEMMA TruncateKeeps ==
  ASSUME NEW c \in Commands, Shapes, Truncate(c), Sound
  PROVE  Sound' /\ (Strong => Strong')
<1>1. /\ todo[c] # <<>> /\ Put(Head(todo[c]).file, Torn) /\ OthersStand(c)
      /\ UNCHANGED <<due, bundle, pc, todo, regenerated, resolver, updateCut, resolving>>
  BY DEF Truncate, Put, OthersStand, resolver, history
<1>2. ASSUME NEW s \in Subjects, NEW k \in Keys, NEW signer \in Keys,
             Writes(c, s), todo[c] = PairOfFiles(s, k, signer)
      PROVE  Sound' /\ (Strong => Strong')
  <2>1. Head(todo[c]).file = <<"key", s>> /\ Len(todo[c]) = 2
    BY <1>2 DEF PairOfFiles
  <2>2. \A j, by \in Keys : Todo(c, s, j, by) => Todo(c, s, j, by)'
    BY <1>1 DEF Todo
  <2>3. pc'[c] = pc[c] /\ Len(todo'[c]) # 1 /\ Put(<<"key", s>>, Torn)
    BY <1>1, <2>1
  <2> QED
    BY <1>1, <1>2, <2>2, <2>3, KeyChanges
<1>3. ASSUME NEW s \in Subjects, NEW k \in Keys, NEW signer \in Keys, Writes(c, s),
             todo[c] = << [file |-> <<"cert", s>>, content |-> [key |-> k, by |-> signer]] >>
      PROVE  Sound' /\ (Strong => Strong')
  <2>1. Head(todo[c]).file = <<"cert", s>>
    BY <1>3
  <2> QED
    BY <1>1, <1>3, <2>1, CertIsTruncated
<1>4. CASE /\ pc[c] = "copy"
           /\ todo[c] = << [file |-> <<"cert", "anchor">>, content |-> CertOf("ca")] >>
  <2>1. Head(todo[c]).file = <<"cert", "anchor">>
    BY <1>4
  <2> QED
    BY <1>1, <1>4, <2>1, AnchorChanges
<1> QED
  BY <1>1, <1>2, <1>3, <1>4, NextWrite

LEMMA WriteFileKeeps ==
  ASSUME NEW c \in Commands, Shapes, WriteFile(c), Sound
  PROVE  Sound' /\ (Strong => Strong')
<1>1. /\ todo[c] # <<>> /\ Put(Head(todo[c]).file, Head(todo[c]).content)
      /\ due' = IF Head(todo[c]).file[1] = "cert" THEN due \ {Head(todo[c]).file[2]} ELSE due
      /\ UNCHANGED <<bundle, regenerated, resolver, updateCut, resolving>>
  BY DEF WriteFile, Put, resolver, history
<1>2. /\ todo'[c] = Tail(todo[c]) /\ OthersStand(c)
      /\ Len(todo[c]) # 1 => pc'[c] = pc[c]
      /\ Len(todo[c]) = 1 => pc'[c] = After(pc[c])
  BY GotoIs DEF WriteFile, OthersStand, resolver, Shapes
<1>3. ASSUME NEW s \in Subjects, NEW k \in Keys, NEW signer \in Keys,
             Writes(c, s), todo[c] = PairOfFiles(s, k, signer)
      PROVE  Sound' /\ (Strong => Strong')
  <2>1. Head(todo[c]) = [file |-> <<"key", s>>, content |-> k] /\ Len(todo[c]) = 2
    BY <1>3 DEF PairOfFiles
  <2>2. todo'[c] = << [file |-> <<"cert", s>>, content |-> [key |-> k, by |-> signer]] >>
    BY <1>2, <1>3 DEF PairOfFiles
  <2>3. ASSUME NEW j \in Keys, NEW by \in Keys, Todo(c, s, j, by) PROVE Todo(c, s, j, by)'
    <3>1. Len(Tail(PairOfFiles(s, j, by))) = 1
      BY DEF PairOfFiles
    <3>2. todo[c] = PairOfFiles(s, j, by)
      BY <2>1, <2>3, <3>1 DEF Todo
    <3> QED
      BY <1>2, <3>2 DEF Todo
  <2>4. due' = due /\ pc'[c] = pc[c]
    BY <1>1, <1>2, <2>1
  <2>5. Put(<<"key", s>>, k) /\ todo'[c][1].content.key = k
    BY <1>1, <2>1, <2>2
  <2> QED
    BY <1>1, <1>2, <1>3, <2>3, <2>4, <2>5, KeyChanges
<1>4. ASSUME NEW s \in Subjects, NEW k \in Keys, NEW signer \in Keys, Writes(c, s),
             todo[c] = << [file |-> <<"cert", s>>, content |-> [key |-> k, by |-> signer]] >>
      PROVE  Sound' /\ (Strong => Strong')
  <2>1. /\ Head(todo[c]) = [file |-> <<"cert", s>>, content |-> [key |-> k, by |-> signer]]
        /\ Len(todo[c]) = 1 /\ Tail(todo[c]) = <<>>
    BY <1>4
  <2>2. Put(<<"cert", s>>, [key |-> k, by |-> signer]) /\ due' = due \ {s}
    BY <1>1, <2>1
  <2> QED
    BY <1>1, <1>2, <1>4, <2>1, <2>2, CertIsWritten
<1>5. CASE /\ pc[c] = "copy"
           /\ todo[c] = << [file |-> <<"cert", "anchor">>, content |-> CertOf("ca")] >>
  <2>1. /\ Head(todo[c]) = [file |-> <<"cert", "anchor">>, content |-> CertOf("ca")]
        /\ Len(todo[c]) = 1 /\ Tail(todo[c]) = <<>>
    BY <1>5
  <2>2. Put(<<"cert", "anchor">>, CertOf("ca")) /\ due' = due \ {"anchor"}
    BY <1>1, <2>1
  <2>3. pc'[c] = "update"
    BY <1>2, <1>5, <2>1 DEF After
  <2> QED
    BY <1>1, <1>2, <1>5, <2>1, <2>2, <2>3, AnchorChanges
<1> QED
  BY <1>1, <1>3, <1>4, <1>5, NextWrite

-------------------------------------------------------------------------------
(* ensure_certs leaves a chain                                              *)

FilesStay == UNCHANGED <<KeyOf("ca"), CertOf("ca"), KeyOf("server"), CertOf("server")>>

LEMMA NobodyElse ==
  ASSUME Sound, NEW c \in Commands, Busy(c)
  PROVE  \A d \in Commands \ {c} : ~Busy(d) /\ ~Amid(d) /\ pc[d] # "ensured"
BY DEF Sound, Alone, Busy, Amid, Ensuring, Commands

\* A step that leaves the files of the CA and the server alone.
LEMMA ChainStays ==
  ASSUME NEW c \in Commands, ChainInv, FilesStay, OthersStand(c), ChainOk(c)',
         Amid(c) => Amid(c)' \/ (CaWhole /\ ServerWhole)
  PROVE  ChainInv'
<1>1. \A d \in Commands \ {c} : ChainOk(d)'
  BY DEF ChainInv, FilesStay, OthersStand, ChainOk, ChainOnDisk, ServerWhole, Signed
<1>2. (CaWhole /\ ServerWhole) => (CaWhole /\ ServerWhole)'
  BY DEF FilesStay, CaWhole, ServerWhole, Signed
<1>3. \A d \in Commands \ {c} : Amid(d) => Amid(d)'
  BY DEF OthersStand, Amid
<1> QED
  BY <1>1, <1>2, <1>3 DEF ChainInv

\* A step of the command that ensures certificates.
LEMMA ChainGoesOn ==
  ASSUME Sound, NEW c \in Commands, Busy(c), OthersStand(c), ChainOk(c)',
         Amid(c)' \/ ChainOnDisk'
  PROVE  ChainInv'
<1>1. \A d \in Commands \ {c} : ChainOk(d)'
  BY NobodyElse DEF OthersStand, ChainOk, Amid
<1>2. ChainOnDisk' => (CaWhole /\ ServerWhole)'
  BY DEF ChainOnDisk, CaWhole, ServerWhole
<1> QED
  BY <1>1, <1>2 DEF ChainInv

LEMMA CheckCaChain ==
  ASSUME NEW c \in Commands, Shapes, Sound, ChainInv, CheckCa(c)
  PROVE  ChainInv'
<1>1. pc[c] = "checkCa" /\ Busy(c) /\ UNCHANGED disk /\ OthersStand(c)
  BY GotoIs DEF CheckCa, Busy, Ensuring, OthersStand, Shapes, resolver, Generate
<1>2. CaWhole /\ ServerWhole
  BY <1>1, NobodyElse DEF ChainInv, Amid
<1>3. FilesStay
  BY <1>1 DEF FilesStay, KeyOf, CertOf
<1>4. CASE Usable("ca") /\ Goto(c, "checkServer")
  <2>1. Signed(KeyOf("ca"), CertOf("ca"), KeyOf("ca"))
    BY <1>2, <1>4 DEF CaWhole, Usable
  <2>2. pc'[c] = "checkServer"
    BY <1>4, GotoIs
  <2>3. ChainOk(c)'
    BY <1>2, <1>3, <2>1, <2>2 DEF ChainOk, FilesStay, Signed, ServerWhole
  <2> QED
    BY <1>1, <1>3, <2>3, ChainStays DEF Amid
<1>5. CASE /\ Generate(c, "ca", NewKey, NewKey)
           /\ regenerated' = regenerated \cup {c} /\ Goto(c, "writeCa")
  <2>1. pc'[c] = "writeCa" /\ todo'[c] = PairOfFiles("ca", NewKey, NewKey) /\ c \in regenerated'
    BY <1>5, GotoIs DEF Generate, Shapes
  <2>2. Len(todo'[c]) = 2
    BY <2>1 DEF PairOfFiles
  <2>3. ChainOk(c)'
    BY <2>1, <2>2 DEF ChainOk
  <2> QED
    BY <1>1, <1>3, <2>3, ChainStays DEF Amid
<1> QED
  BY <1>4, <1>5 DEF CheckCa

LEMMA CheckServerChain ==
  ASSUME NEW c \in Commands, Shapes, Sound, ChainInv, CheckServer(c)
  PROVE  ChainInv'
<1> DEFINE fine == c \notin regenerated /\ Usable("server")
<1>1. pc[c] = "checkServer" /\ Busy(c) /\ UNCHANGED <<disk, regenerated>> /\ OthersStand(c)
  BY GotoIs DEF CheckServer, Busy, Ensuring, OthersStand, Shapes, resolver, Generate
<1>2. /\ Signed(KeyOf("ca"), CertOf("ca"), KeyOf("ca"))
      /\ c \in regenerated \/ ServerWhole
  BY <1>1 DEF ChainInv, ChainOk
<1>3. KeyOf("ca") \in Keys /\ CertOf("ca") \in Cert
  BY <1>2 DEF Signed, Cert
<1>4. FilesStay
  BY <1>1 DEF FilesStay, KeyOf, CertOf
<1>5. CASE fine /\ Goto(c, "ensured")
  <2>1. ChainOnDisk
    BY <1>2, <1>3, <1>5, MarksAssumption DEF ChainOnDisk, ServerWhole, Usable
  <2>2. ChainOnDisk'
    BY <1>4, <2>1 DEF FilesStay, ChainOnDisk, Signed
  <2>3. pc'[c] = "ensured"
    BY <1>5, GotoIs
  <2>4. ChainOk(c)'
    BY <2>2, <2>3 DEF ChainOk, ChainOnDisk
  <2> QED
    BY <1>1, <2>2, <2>4, ChainGoesOn
<1>6. CASE Generate(c, "server", NewKey, KeyOf("ca")) /\ Goto(c, "writeServer")
  <2>1. pc'[c] = "writeServer" /\ todo'[c] = PairOfFiles("server", NewKey, KeyOf("ca"))
    BY <1>6, GotoIs DEF Generate, Shapes
  <2>2. Len(todo'[c]) = 2
    BY <2>1 DEF PairOfFiles
  <2>3. ChainOk(c)'
    BY <1>2, <1>4, <2>1, <2>2 DEF ChainOk, FilesStay, Signed
  <2> QED
    BY <1>1, <2>1, <2>3, ChainGoesOn DEF Amid
<1> QED
  BY <1>3, <1>5, <1>6 DEF CheckServer, CaLoads

LEMMA TruncateChain ==
  ASSUME NEW c \in Commands, Shapes, Sound, ChainInv, Truncate(c)
  PROVE  ChainInv'
<1>1. /\ todo[c] # <<>> /\ Put(Head(todo[c]).file, Torn) /\ OthersStand(c)
      /\ UNCHANGED <<pc, todo, regenerated, resolving>>
  BY DEF Truncate, Put, OthersStand, resolver, history
<1>2. ChainOk(c)
  BY DEF ChainInv
<1>3. ASSUME NEW s \in Subjects, NEW k \in Keys, NEW signer \in Keys,
             Writes(c, s), todo[c] = PairOfFiles(s, k, signer)
      PROVE  ChainInv'
  <2>1. Head(todo[c]).file = <<"key", s>> /\ Len(todo[c]) = 2
    BY <1>3 DEF PairOfFiles
  <2>2. /\ \A t \in Subjects \ {s} : KeyOf(t)' = KeyOf(t)
        /\ \A t \in Subjects : CertOf(t)' = CertOf(t)
    BY <1>1, <2>1, KeyPut
  <2>3. CASE pc[c] = "writeCa" \/ pc[c] = "writeServer"
    <3>1. pc[c] = "writeServer" => s # "ca" /\ Signed(KeyOf("ca"), CertOf("ca"), KeyOf("ca"))
      BY <1>2, <1>3, HostsAssumption DEF ChainOk, Writes
    <3>2. pc[c] = "writeServer" => UNCHANGED <<KeyOf("ca"), CertOf("ca")>>
      BY <2>2, <3>1 DEF Subjects
    <3>3. ChainOk(c)'
      BY <1>1, <1>2, <2>1, <2>3, <3>1, <3>2 DEF ChainOk, Signed
    <3> QED
      BY <1>1, <2>3, <3>3, ChainGoesOn DEF Amid, Busy, Ensuring
  <2>4. CASE pc[c] = "writeHost"
    <3>1. FilesStay
      BY <1>3, <2>2, <2>4, HostsAssumption DEF FilesStay, Writes, Subjects
    <3> QED
      BY <1>1, <2>4, <3>1, ChainStays DEF Amid, ChainOk
  <2> QED
    BY <1>3, <2>3, <2>4 DEF Writes
<1>4. ASSUME NEW s \in Subjects, NEW k \in Keys, NEW signer \in Keys, Writes(c, s),
             todo[c] = << [file |-> <<"cert", s>>, content |-> [key |-> k, by |-> signer]] >>
      PROVE  ChainInv'
  <2>1. Head(todo[c]).file = <<"cert", s>>
    BY <1>4
  <2>2. /\ \A t \in Subjects : KeyOf(t)' = KeyOf(t)
        /\ \A t \in Subjects \ {s} : CertOf(t)' = CertOf(t)
    BY <1>1, <2>1, CertPut
  <2>3. CASE pc[c] = "writeCa" \/ pc[c] = "writeServer"
    <3>1. pc[c] = "writeServer" => s # "ca" /\ Signed(KeyOf("ca"), CertOf("ca"), KeyOf("ca"))
      BY <1>2, <1>4, HostsAssumption DEF ChainOk, Writes
    <3>2. /\ UNCHANGED <<KeyOf("ca"), KeyOf("server")>>
          /\ pc[c] = "writeServer" => UNCHANGED CertOf("ca")
      BY <2>2, <3>1 DEF Subjects
    <3>3. ChainOk(c)'
      BY <1>1, <1>2, <2>3, <3>1, <3>2 DEF ChainOk, Signed
    <3> QED
      BY <1>1, <2>3, <3>3, ChainGoesOn DEF Amid, Busy, Ensuring
  <2>4. CASE pc[c] = "writeHost"
    <3>1. FilesStay
      BY <1>4, <2>2, <2>4, HostsAssumption DEF FilesStay, Writes, Subjects
    <3> QED
      BY <1>1, <2>4, <3>1, ChainStays DEF Amid, ChainOk
  <2> QED
    BY <1>4, <2>3, <2>4 DEF Writes
<1>5. CASE /\ pc[c] = "copy"
           /\ todo[c] = << [file |-> <<"cert", "anchor">>, content |-> CertOf("ca")] >>
  <2>1. Head(todo[c]).file = <<"cert", "anchor">>
    BY <1>5
  <2>2. FilesStay
    BY <1>1, <2>1, CertPut, NamesDiffer DEF FilesStay, Subjects
  <2> QED
    BY <1>1, <1>5, <2>2, ChainStays DEF Amid, ChainOk
<1> QED
  BY <1>1, <1>3, <1>4, <1>5, NextWrite

LEMMA WriteFileChain ==
  ASSUME NEW c \in Commands, Shapes, Sound, ChainInv, WriteFile(c)
  PROVE  ChainInv'
<1>1. /\ todo[c] # <<>> /\ Put(Head(todo[c]).file, Head(todo[c]).content)
      /\ UNCHANGED <<regenerated, resolving>>
  BY DEF WriteFile, Put, resolver
<1>2. /\ todo'[c] = Tail(todo[c]) /\ OthersStand(c)
      /\ Len(todo[c]) # 1 => pc'[c] = pc[c]
      /\ Len(todo[c]) = 1 => pc'[c] = After(pc[c])
  BY GotoIs DEF WriteFile, OthersStand, resolver, Shapes
<1>3. ChainOk(c)
  BY DEF ChainInv
<1>4. ASSUME NEW s \in Subjects, NEW k \in Keys, NEW signer \in Keys,
             Writes(c, s), todo[c] = PairOfFiles(s, k, signer)
      PROVE  ChainInv'
  <2>1. Head(todo[c]) = [file |-> <<"key", s>>, content |-> k] /\ Len(todo[c]) = 2
    BY <1>4 DEF PairOfFiles
  <2>2. todo'[c] = << [file |-> <<"cert", s>>, content |-> [key |-> k, by |-> signer]] >>
    BY <1>2, <1>4 DEF PairOfFiles
  <2>3. todo'[c][1].content.key = k /\ pc'[c] = pc[c]
    <3>1. todo'[c][1].content.key = k
      BY <2>2
    <3> QED
      BY <1>2, <2>1, <3>1
  <2>4. /\ KeyOf(s)' = k /\ \A t \in Subjects \ {s} : KeyOf(t)' = KeyOf(t)
        /\ \A t \in Subjects : CertOf(t)' = CertOf(t)
    BY <1>1, <2>1, KeyPut
  <2>5. CASE pc[c] = "writeCa"
    BY <1>1, <1>2, <1>3, <1>4, <2>3, <2>4, <2>5, ChainGoesOn
    DEF ChainOk, Writes, Amid, Busy, Ensuring
  <2>6. CASE pc[c] = "writeServer"
    <3>1. s = "server" /\ UNCHANGED <<KeyOf("ca"), CertOf("ca")>>
      BY <1>4, <2>4, <2>6 DEF Writes, Subjects
    <3>2. ChainOk(c)'
      BY <1>3, <2>3, <2>4, <2>6, <3>1 DEF ChainOk, Signed
    <3> QED
      BY <1>2, <2>3, <2>6, <3>2, ChainGoesOn DEF Amid, Busy, Ensuring
  <2>7. CASE pc[c] = "writeHost"
    <3>1. FilesStay
      BY <1>4, <2>4, <2>7, HostsAssumption DEF FilesStay, Writes, Subjects
    <3> QED
      BY <1>2, <2>3, <2>7, <3>1, ChainStays DEF Amid, ChainOk
  <2> QED
    BY <1>4, <2>5, <2>6, <2>7 DEF Writes
<1>5. ASSUME NEW s \in Subjects, NEW k \in Keys, NEW signer \in Keys, Writes(c, s),
             todo[c] = << [file |-> <<"cert", s>>, content |-> [key |-> k, by |-> signer]] >>
      PROVE  ChainInv'
  <2> DEFINE new == [key |-> k, by |-> signer]
  <2>1. /\ Head(todo[c]) = [file |-> <<"cert", s>>, content |-> new]
        /\ Len(todo[c]) = 1 /\ todo[c][1].content.key = k
    BY <1>5
  <2>2. /\ CertOf(s)' = new /\ new \in Cert /\ new.key = k /\ new.by = signer
        /\ \A t \in Subjects : KeyOf(t)' = KeyOf(t)
        /\ \A t \in Subjects \ {s} : CertOf(t)' = CertOf(t)
    BY <1>1, <2>1, CertPut DEF Cert
  <2> HIDE DEF new
  <2>3. CASE pc[c] = "writeCa"
    <3>1. s = "ca" /\ pc'[c] = "checkServer" /\ c \in regenerated' /\ KeyOf("ca") = k
      BY <1>1, <1>2, <1>3, <1>5, <2>1, <2>3 DEF Writes, After, ChainOk
    <3>2. signer = k
      BY <1>5, <2>3, <3>1, SignerIs
    <3>3. ChainOk(c)'
      BY <2>2, <3>1, <3>2 DEF ChainOk, Signed
    <3> QED
      BY <1>2, <2>3, <3>1, <3>3, ChainGoesOn DEF Amid, Busy, Ensuring
  <2>4. CASE pc[c] = "writeServer"
    <3>1. /\ s = "server" /\ pc'[c] = "ensured" /\ KeyOf("server") = k
          /\ Signed(KeyOf("ca"), CertOf("ca"), KeyOf("ca"))
      BY <1>2, <1>3, <1>5, <2>1, <2>4 DEF Writes, After, ChainOk
    <3>2. signer = KeyOf("ca")
      BY <1>5, <2>4, <3>1, SignerIs
    <3>3. UNCHANGED <<KeyOf("ca"), CertOf("ca"), KeyOf("server")>>
      BY <2>2, <3>1 DEF Subjects
    <3>4. ChainOnDisk'
      BY <2>2, <3>1, <3>2, <3>3 DEF ChainOnDisk, Signed
    <3>5. ChainOk(c)'
      BY <3>1, <3>4 DEF ChainOk, ChainOnDisk
    <3> QED
      BY <1>2, <2>4, <3>4, <3>5, ChainGoesOn DEF Busy, Ensuring
  <2>5. CASE pc[c] = "writeHost"
    <3>1. FilesStay /\ pc'[c] = "loadHost"
      BY <1>2, <1>5, <2>1, <2>2, <2>5, HostsAssumption DEF FilesStay, Writes, Subjects, After
    <3> QED
      BY <1>2, <2>5, <3>1, ChainStays DEF Amid, ChainOk
  <2> QED
    BY <1>5, <2>3, <2>4, <2>5 DEF Writes
<1>6. CASE /\ pc[c] = "copy"
           /\ todo[c] = << [file |-> <<"cert", "anchor">>, content |-> CertOf("ca")] >>
  <2>1. Head(todo[c]).file = <<"cert", "anchor">> /\ Len(todo[c]) = 1
    BY <1>6
  <2>2. FilesStay
    BY <1>1, <2>1, CertPut, NamesDiffer DEF FilesStay, Subjects
  <2>3. pc'[c] = "update"
    BY <1>2, <1>6, <2>1 DEF After
  <2> QED
    BY <1>2, <1>6, <2>2, <2>3, ChainStays DEF Amid, ChainOk
<1> QED
  BY <1>1, <1>4, <1>5, <1>6, NextWrite

\* Steps of commands outside ensure_certs.
LEMMA OutsideChain ==
  ASSUME NEW c \in Commands, ChainInv, UNCHANGED disk, OthersStand(c), ~Amid(c),
         pc'[c] \notin Ensuring \/ pc'[c] = "checkCa"
  PROVE  ChainInv'
<1>1. FilesStay
  BY DEF FilesStay, KeyOf, CertOf
<1>2. ChainOk(c)'
  BY DEF ChainOk, Ensuring
<1> QED
  BY <1>1, <1>2, ChainStays

LEMMA ChainStep ==
  ASSUME Shapes, Sound, ChainInv, [Next]_vars, ~overlapped', ~cut'
  PROVE  ChainInv'
<1>1. ASSUME NEW c \in Commands, Begin(c) PROVE ChainInv'
  BY <1>1, GotoIs, OutsideChain DEF Begin, OthersStand, resolver, Amid
<1>2. ASSUME NEW c \in Commands, CheckCa(c) \/ CheckServer(c) \/ Truncate(c) \/ WriteFile(c)
      PROVE  ChainInv'
  BY <1>2, CheckCaChain, CheckServerChain, TruncateChain, WriteFileChain
<1>3. ASSUME NEW c \in Commands, WriteFails(c) \/ Kill(c) PROVE ChainInv'
  <2>1. Kill(c) /\ pc[c] = "serving"
    BY <1>3 DEF WriteFails, Kill
  <2> QED
    BY <2>1, GotoIs, OutsideChain DEF Kill, Abandon, OthersStand, Shapes, Amid, Ensuring
<1>4. CASE StartServing \/ LoadHostCert
  <2>1. /\ "proxy" \in Commands /\ OthersStand("proxy") /\ UNCHANGED disk
        /\ pc["proxy"] \in {"ensured", "loadHost"} /\ pc'["proxy"] \in {"serving", "idle"}
    BY <1>4, GotoIs DEF StartServing, LoadHostCert, OthersStand, Commands
  <2> QED
    BY <2>1, OutsideChain DEF Amid, Ensuring
<1>5. ASSUME NEW h \in Hosts, GenerateHostCert(h) PROVE ChainInv'
  <2>1. /\ "proxy" \in Commands /\ OthersStand("proxy") /\ UNCHANGED disk
        /\ pc["proxy"] = "serving" /\ pc'["proxy"] \in {"serving", "writeHost"}
    BY <1>5, GotoIs DEF GenerateHostCert, Generate, OthersStand, Commands, Shapes
  <2> QED
    BY <2>1, OutsideChain DEF Amid, Ensuring
<1>6. CASE TrustCa \/ UpdateBundle
  <2>1. /\ "trust" \in Commands /\ OthersStand("trust") /\ UNCHANGED disk
        /\ pc["trust"] \in {"ensured", "update"} /\ pc'["trust"] \in {"trusted", "copy", "idle"}
    BY <1>6, GotoIs DEF TrustCa, UpdateBundle, OthersStand, Commands, Shapes, resolver
  <2> QED
    BY <2>1, OutsideChain DEF Amid, Ensuring
<1>7. ASSUME NEW f \in Files, RemoveFile(f) PROVE ChainInv'
  <2>1. /\ \A c \in Commands : ~Busy(c)
        /\ UNCHANGED <<pc, todo, regenerated>> /\ Put(f, Absent)
    BY <1>7 DEF RemoveFile, commands, Put
  <2>2. CaWhole /\ ServerWhole
    BY <2>1 DEF ChainInv, Amid, Busy, Ensuring
  <2>3. \A g \in Files : disk'[g] \in {disk[g], Absent}
    BY <2>1 DEF Put, Shapes
  <2>4. /\ KeyOf("ca")' \in {KeyOf("ca"), Absent} /\ CertOf("ca")' \in {CertOf("ca"), Absent}
        /\ KeyOf("server")' \in {KeyOf("server"), Absent}
        /\ CertOf("server")' \in {CertOf("server"), Absent}
    BY <2>3 DEF Files, Subjects, KeyOf, CertOf
  <2>5. (CaWhole /\ ServerWhole)'
    BY <2>2, <2>4 DEF CaWhole, ServerWhole, Signed
  <2>6. \A c \in Commands : ChainOk(c)'
    BY <2>1 DEF Busy, Ensuring, ChainOk
  <2> QED
    BY <2>5, <2>6 DEF ChainInv
<1>8. ASSUME UNCHANGED <<disk, pc, todo, regenerated>> PROVE ChainInv'
  BY <1>8
  DEF ChainInv, ChainOk, ChainOnDisk, CaWhole, ServerWhole, Amid, Signed, KeyOf, CertOf
<1>9. ASSUME \/ ServeDefault \/ UNCHANGED vars \/ \E s \in Subjects : Expire(s)
             \/ \E h \in Hosts : ServeCached(h) \/ ServeFromDisk(h)
      PROVE  ChainInv'
  BY <1>8, <1>9 DEF ServeDefault, vars, Expire, ServeCached, ServeFromDisk, commands
<1> QED
  BY <1>1, <1>2, <1>3, <1>4, <1>5, <1>6, <1>7, <1>9 DEF Next

-------------------------------------------------------------------------------
(* The user, the clock, and the whole                                       *)

LEMMA RemoveFileKeeps ==
  ASSUME NEW f \in Files, Shapes, RemoveFile(f), ~overlapped', Sound
  PROVE  Sound' /\ removed'
<1>1. /\ \A c \in Commands : ~Busy(c)
      /\ UNCHANGED <<bundle, pc, todo, resolving, updateCut>> /\ removed'
      /\ f # <<"cert", "anchor">> /\ Put(f, Absent)
  BY DEF RemoveFile, commands, resolver, Put
<1>2. \A c \in Commands : pc[c] \notin Ensuring \cup Trusting
  BY <1>1 DEF Busy
<1>3. CertOf("anchor")' = CertOf("anchor")
  BY <1>1 DEF Put, Shapes, CertOf, Files
<1>4. Alone' /\ BundleInv'
  BY <1>1, <1>2, <1>3 DEF Sound, Alone, BundleInv, Busy, Trusting, Commands
<1>5. \A c \in Commands : TodoOk(c)'
  BY <1>1, <1>2 DEF Sound, TodoOk, Todo, Ensuring, Trusting
<1> QED
  BY <1>1, <1>4, <1>5 DEF Sound

LEMMA ExpireKeeps ==
  ASSUME NEW s \in Subjects, Expire(s), Sound
  PROVE  Sound' /\ (Strong /\ ~caExpired' => Strong')
<1>1. /\ UNCHANGED <<disk, bundle, pc, todo, regenerated, resolving, default, served, cache,
                     updateCut>>
      /\ due' = due \cup {s} /\ (~caExpired' => s # "ca")
  BY DEF Expire, commands, resolver
<1>2. Sound'
  BY <1>1 DEF Sound, Alone, Busy, BundleInv, TodoOk, Todo, KeyOf, CertOf
<1>3. ASSUME Strong, ~caExpired' PROVE Strong'
  <2>1. ServedInv'
    BY <1>1, <1>3 DEF Strong, ServedInv, SignedByCa, Signed, KeyOf, CertOf
  <2>2. DiskInv' /\ \A c \in Commands : ReplacingOk(c)'
    BY <1>1, <1>3
    DEF Strong, DiskInv, Signed, ReplacingOk, Replacing, Paired, Todo, KeyOf, CertOf
  <2> QED
    BY <2>1, <2>2 DEF Strong
<1> QED
  BY <1>2, <1>3

LEMMA HistoryGrows ==
  [Next]_vars /\ ~overlapped' => /\ ~overlapped /\ (~cut' => ~cut)
                                /\ (~removed' => ~removed) /\ (~caExpired' => ~caExpired)
<1> SUFFICES ASSUME [Next]_vars, ~overlapped'
             PROVE  /\ ~overlapped /\ (~cut' => ~cut)
                    /\ (~removed' => ~removed) /\ (~caExpired' => ~caExpired)
  OBVIOUS
<1> USE DEF history
<1>1. \A c \in Commands :
        Begin(c) \/ CheckCa(c) \/ CheckServer(c) \/ Truncate(c) \/ WriteFile(c) =>
          ~overlapped /\ UNCHANGED <<removed, caExpired, cut>>
  BY DEF Begin, CheckCa, CheckServer, Truncate, WriteFile
<1>2. \A c \in Commands : WriteFails(c) \/ Kill(c) =>
        UNCHANGED <<overlapped, removed, caExpired>> /\ (~cut' => ~cut)
  BY DEF WriteFails, Kill
<1>3. StartServing \/ ServeDefault \/ LoadHostCert \/ TrustCa \/ UpdateBundle
      => UNCHANGED <<overlapped, removed, caExpired, cut>>
  BY DEF StartServing, ServeDefault, LoadHostCert, TrustCa, UpdateBundle
<1>4. \A h \in Hosts : ServeCached(h) \/ ServeFromDisk(h) \/ GenerateHostCert(h)
      => UNCHANGED <<overlapped, removed, caExpired, cut>>
  BY DEF ServeCached, ServeFromDisk, GenerateHostCert
<1>5. \A f \in Files : RemoveFile(f) => ~overlapped /\ removed' /\ UNCHANGED <<caExpired, cut>>
  BY DEF RemoveFile
<1>6. \A s \in Subjects : Expire(s) =>
        (~caExpired' => ~caExpired) /\ UNCHANGED <<overlapped, removed, cut>>
  BY DEF Expire
<1>7. UNCHANGED vars => UNCHANGED <<overlapped, removed, caExpired, cut>>
  BY DEF vars
<1> QED
  BY <1>1, <1>2, <1>3, <1>4, <1>5, <1>6, <1>7 DEF Next

LEMMA InvStep == CertInv /\ [Next]_vars => CertInv'
<1> SUFFICES ASSUME CertInv, [Next]_vars, ~overlapped'
             PROVE  Sound' /\ (~removed' /\ ~caExpired' => Strong') /\ (~cut' => ChainInv')
  BY ShapesStep DEF CertInv
<1>0. ~cut' => ChainInv'
  BY HistoryGrows, ChainStep DEF CertInv
<1> SUFFICES Sound' /\ (~removed' /\ ~caExpired' => Strong')
  BY <1>0
<1>1. Shapes /\ Sound /\ (~removed' /\ ~caExpired' => Strong)
  BY HistoryGrows DEF CertInv
<1>2. ASSUME NEW c \in Commands,
             \/ Begin(c) \/ CheckCa(c) \/ CheckServer(c)
             \/ Truncate(c) \/ WriteFile(c) \/ WriteFails(c) \/ Kill(c)
      PROVE  Sound' /\ (Strong => Strong')
  BY <1>1, <1>2, BeginKeeps, CheckCaKeeps, CheckServerKeeps, TruncateKeeps, WriteFileKeeps,
     WriteFailsKeeps, KillKeeps
<1>3. CASE StartServing \/ ServeDefault \/ LoadHostCert
  BY <1>1, <1>3, StartServingKeeps, ServeKeeps, LoadHostCertKeeps
<1>4. ASSUME NEW h \in Hosts, ServeCached(h) \/ ServeFromDisk(h) \/ GenerateHostCert(h)
      PROVE  Sound' /\ (Strong => Strong')
  BY <1>1, <1>4, ServeKeeps, ServeFromDiskKeeps, GenerateHostCertKeeps
<1>5. CASE TrustCa \/ UpdateBundle
  BY <1>1, <1>5, TrustCaKeeps, UpdateBundleKeeps
<1>6. ASSUME NEW f \in Files, RemoveFile(f) PROVE Sound' /\ removed'
  BY <1>1, <1>6, RemoveFileKeeps
<1>7. ASSUME NEW s \in Subjects, Expire(s) PROVE Sound' /\ (Strong /\ ~caExpired' => Strong')
  BY <1>1, <1>7, ExpireKeeps
<1>8. CASE UNCHANGED vars
  <2> USE <1>8 DEF vars, commands, resolver, history
  <2>1. Sound'
    BY <1>1 DEF Sound, Alone, Busy, BundleInv, TodoOk, Todo, KeyOf, CertOf
  <2>2. ASSUME Strong PROVE DiskInv' /\ ServedInv'
    BY <2>2 DEF Strong, DiskInv, ServedInv, SignedByCa, Signed, KeyOf, CertOf
  <2>3. ASSUME Strong PROVE \A c \in Commands : ReplacingOk(c)'
    BY <2>3 DEF Strong, ReplacingOk, Replacing, Paired, Todo, KeyOf, CertOf
  <2> QED
    BY <1>1, <2>1, <2>2, <2>3 DEF Strong
<1> QED
  BY <1>1, <1>2, <1>3, <1>4, <1>5, <1>6, <1>7, <1>8 DEF Next

\* A running proxy only shows certificates that fit their keys and are signed
\* by the CA on disk, whatever is killed or fails to be written, while commands
\* do not ensure certificates at once and the first CA is in force.
THEOREM ServedIsTrusted == Spec => []ServedCertIsTrusted
<1>1. CertInv => ServedCertIsTrusted
  BY DEF CertInv, Strong, ServedInv, SignedByCa, ServedCertIsTrusted
<1> QED
  BY <1>1, InitInv, InvStep, PTL DEF Spec

EnsuredInv ==
  \A c \in Commands :
    pc[c] = "ensured" /\ ~overlapped /\ (cut => ~removed /\ ~caExpired) => ChainOnDisk

\* ensure_certs leaves a CA and a server certificate under it, each with its
\* key, for any files missing, due or cut off before, under the premises that
\* EnsureMakesAChain names.
THEOREM ChainIsEnsured == Spec => EnsureMakesAChain
<1>1. CertInv => EnsuredInv
  <2> SUFFICES ASSUME CertInv, NEW c \in Commands, pc[c] = "ensured", ~overlapped,
                      cut => ~removed /\ ~caExpired
               PROVE  ChainOnDisk
    BY DEF EnsuredInv
  <2>1. CASE ~cut
    BY <2>1 DEF CertInv, ChainInv, ChainOk
  <2>2. CASE cut
    BY <2>2 DEF CertInv, Strong, DiskInv, ReplacingOk, Paired, Leaves, ChainOnDisk, Signed
  <2> QED
    BY <2>1, <2>2
<1>2. EnsuredInv' => [ \A c \in Commands :
                         pc[c] # "ensured" /\ pc'[c] = "ensured" /\ ~overlapped'
                         /\ (cut' => ~removed' /\ ~caExpired')
                         => ChainOnDisk' ]_vars
  BY DEF EnsuredInv
<1> QED
  BY <1>1, <1>2, InitInv, InvStep, PTL DEF Spec, EnsureMakesAChain

\* When `nsl trust` is done, the bundle has the CA that is on disk, also after
\* files were removed, CAs renewed and copies cut short.
THEOREM InstalledWhenTrusted == Spec => TrustedMeansInstalled
<1>1. CertInv /\ [Next]_vars
      => [ pc["trust"] # "trusted" /\ pc'["trust"] = "trusted" /\ ~overlapped' /\ ~updateCut'
           => bundle' = CertOf("ca") ]_vars
  <2> SUFFICES ASSUME CertInv, Next, pc["trust"] # "trusted", pc'["trust"] = "trusted",
                      ~overlapped', ~updateCut'
               PROVE  bundle' = CertOf("ca")
    OBVIOUS
  <2>1. Shapes /\ Sound
    BY HistoryGrows DEF CertInv
  <2>2. TrustCa \/ UpdateBundle
    <3> SUFFICES ASSUME ~TrustCa, ~UpdateBundle PROVE FALSE
      OBVIOUS
    <3>1. \A c \in Commands : Begin(c) \/ CheckCa(c) \/ CheckServer(c) \/ Kill(c) \/ WriteFails(c)
          => \/ pc'["trust"] = pc["trust"]
             \/ pc'["trust"] \in {"checkCa", "checkServer", "writeCa", "ensured", "writeServer",
                                  "idle", "serving"}
      BY <2>1, GotoIs DEF Begin, CheckCa, CheckServer, Kill, WriteFails, Commands
    <3>2. \A c \in Commands : Truncate(c) \/ WriteFile(c)
          => pc'["trust"] \in {pc["trust"], After(pc["trust"])}
      BY <2>1, GotoIs DEF Truncate, WriteFile, Commands
    <3>3. \A c \in Commands : Truncate(c) \/ WriteFile(c) => pc'["trust"] # "trusted"
      <4> SUFFICES ASSUME NEW c \in Commands, Truncate(c) \/ WriteFile(c) PROVE pc'["trust"] # "trusted"
        OBVIOUS
      <4>1. CASE c = "proxy" \/ Truncate(c)
        BY <2>1, <4>1, GotoIs DEF Truncate, WriteFile, Commands
      <4>2. CASE c = "trust" /\ WriteFile(c)
        <5>1. pc[c] \in {"writeCa", "writeServer", "writeHost", "copy"}
          BY <2>1, <4>2 DEF WriteFile, Sound, TodoOk
        <5> QED
          BY <2>1, <4>2, <5>1, <3>2 DEF After
      <4> QED
        BY <4>1, <4>2 DEF Commands
    <3>4. StartServing \/ LoadHostCert => pc'["trust"] = pc["trust"]
      BY <2>1, GotoIs DEF StartServing, LoadHostCert, Commands
    <3>5. \A h \in Hosts : ServeCached(h) \/ ServeFromDisk(h) \/ GenerateHostCert(h)
          => pc'["trust"] = pc["trust"]
      BY <2>1, GotoIs DEF ServeCached, ServeFromDisk, GenerateHostCert, Commands, commands
    <3>6. \A f \in Files : RemoveFile(f) => pc' = pc
      BY DEF RemoveFile, commands
    <3>7. (\E s \in Subjects : Expire(s)) \/ ServeDefault => pc' = pc
      BY DEF Expire, ServeDefault, commands
    <3> QED
      BY <3>1, <3>3, <3>4, <3>5, <3>6, <3>7 DEF Next
  <2>3. CASE TrustCa
    <3>1. CertOf("anchor") = CertOf("ca") /\ pc["trust"] = "ensured"
      BY <2>1, <2>3, GotoIs DEF TrustCa, IsCaTrusted, Commands
    <3>2. CertOf("ca") \in Cert /\ UNCHANGED <<disk, bundle, updateCut>>
      BY <2>1, <2>3, <3>1 DEF Sound, TodoOk, TrustCa, history, Commands
    <3> QED
      BY <2>1, <3>1, <3>2 DEF Sound, BundleInv, CertOf
  <2>4. CASE UpdateBundle
    BY <2>1, <2>4, GotoIs DEF UpdateBundle, Sound, BundleInv, CertOf, Commands
  <2> QED
    BY <2>2, <2>3, <2>4
<1> QED
  BY <1>1, InitInv, InvStep, PTL DEF Spec, TrustedMeansInstalled

-------------------------------------------------------------------------------
(* Types                                                                    *)

LEMMA InitTyped == Init => TypeInv
<1> SUFFICES ASSUME Init PROVE TypeInv
  OBVIOUS
<1> USE DEF Init
<1>1. Shapes
  BY DEF Shapes
<1>2. DiskType
  BY MarksAssumption DEF DiskType, Contents, Files
<1>3. PhaseType
  BY DEF PhaseType, PhaseFits, Writing, Serving, Commands
<1>4. ResolverType
  BY DEF ResolverType, Serving, Optional, Commands
<1>5. mishaps \in 0..MaxMishaps
  BY BoundsAssumption
<1>6. HistoryType
  BY <1>5, Zenon DEF HistoryType
<1> QED
  BY <1>1, <1>2, <1>3, <1>4, <1>6 DEF TypeInv

\* The first of the files that a command has to write, and what it is to hold.
FitsFile(f, x) ==
  /\ f \in Files /\ x \in Contents
  /\ x \in Keys => f[1] = "key"
  /\ x \in Cert => f[1] = "cert"

LEMMA PairFits ==
  ASSUME NEW c \in Commands, NEW s \in Subjects, NEW k \in Keys, NEW signer \in Keys,
         Todo(c, s, k, signer)
  PROVE  /\ FitsFile(Head(todo[c]).file, Head(todo[c]).content)
         /\ \A i \in DOMAIN todo[c] : todo[c][i] \in Write
         /\ Len(todo[c]) \in {1, 2}
         /\ Len(todo[c]) = 2 => Todo(c, s, k, signer) /\ Tail(todo[c]) = Tail(PairOfFiles(s, k, signer))
         /\ Len(todo[c]) = 1 => Tail(todo[c]) = <<>>
<1> DEFINE cert == [key |-> k, by |-> signer]
           w1 == [file |-> <<"key", s>>, content |-> k]
           w2 == [file |-> <<"cert", s>>, content |-> cert]
<1>1. cert \in Cert
  BY DEF Cert
<1>2. <<"key", s>> \in Files /\ <<"cert", s>> \in Files
  BY DEF Files
<1>3. w1 \in Write /\ w2 \in Write
  BY <1>1, <1>2 DEF Write, Contents
<1>4. k \notin Cert /\ cert \notin Keys
  BY <1>1, MarksAssumption
<1>5. FitsFile(w1.file, w1.content) /\ FitsFile(w2.file, w2.content)
  BY <1>1, <1>2, <1>4 DEF FitsFile, Contents
<1>6. todo[c] = << w1, w2 >> \/ todo[c] = << w2 >>
  BY DEF Todo, PairOfFiles
<1> HIDE DEF w1, w2
<1>7. Tail(<< w1, w2 >>) = << w2 >>
  OBVIOUS
<1>8. CASE todo[c] = << w1, w2 >>
  BY <1>3, <1>5, <1>7, <1>8 DEF PairOfFiles, w1, w2
<1>9. CASE todo[c] = << w2 >>
  BY <1>3, <1>5, <1>9
<1> QED
  BY <1>6, <1>8, <1>9

\* The file that is truncated or written gets what may be in it.
LEMMA WriteFits ==
  ASSUME PhaseType, ResolverType, NEW c \in Commands, todo[c] # <<>>
  PROVE  /\ FitsFile(Head(todo[c]).file, Head(todo[c]).content)
         /\ pc[c] \in Writing
<1>1. PhaseFits(c) /\ pc[c] \in Writing
  BY DEF PhaseType, PhaseFits
<1>2. CASE pc[c] = "copy"
  <2>1. PICK x \in Cert \cup {Torn} :
          todo[c] = << [file |-> <<"cert", "anchor">>, content |-> x] >>
    BY <1>1, <1>2 DEF PhaseFits
  <2>2. FitsFile(<<"cert", "anchor">>, x)
    BY MarksAssumption DEF FitsFile, Files, Contents
  <2> QED
    BY <1>1, <2>1, <2>2
<1>3. CASE pc[c] # "copy"
  <2>1. PICK s \in Subjects, k \in Keys, signer \in Keys : Todo(c, s, k, signer)
    <3>1. pc[c] = "writeHost" => resolving \in Hosts
      <4>1. pc[c] = "writeHost" => c = "proxy"
        BY DEF PhaseType, Serving, Commands
      <4> QED
        BY <4>1 DEF ResolverType, Optional
    <3> QED
      BY <1>1, <1>3, <3>1 DEF PhaseFits, Writing, Subjects
  <2> QED
    BY <1>1, <2>1, PairFits
<1> QED
  BY <1>2, <1>3

\* A file changes to what may be in it.
LEMMA PutFits ==
  ASSUME DiskType, NEW f, NEW x, FitsFile(f, x), Put(f, x), UNCHANGED bundle,
         \A s \in due' : s \in due /\ (f = <<"cert", s>> => x \in Cert \cup {Torn})
  PROVE  DiskType'
<1> DEFINE D == [disk EXCEPT ![f] = x]
<1>1. D \in [Files -> Contents] /\ \A g \in Files : D[g] = IF g = f THEN x ELSE disk[g]
  BY DEF DiskType, FitsFile
<1> HIDE DEF D
<1>2. disk' = D
  BY DEF Put, D
<1>3. \A g \in Files : (D[g] \in Keys => g[1] = "key") /\ (D[g] \in Cert => g[1] = "cert")
  BY <1>1 DEF DiskType, FitsFile
<1>4. ASSUME NEW s \in due' PROVE s \in Subjects /\ D[<<"cert", s>>] \in Cert \cup {Torn}
  <2>1. s \in Subjects /\ CertOf(s) \in Cert \cup {Torn} /\ <<"cert", s>> \in Files
    BY DEF DiskType, Files
  <2> QED
    BY <1>1, <2>1 DEF CertOf
<1> QED
  BY <1>1, <1>2, <1>3, <1>4 DEF DiskType, CertOf

LEMMA DiskTyped ==
  ASSUME DiskType, PhaseType, ResolverType, [Next]_vars
  PROVE  DiskType'
<1>1. ASSUME UNCHANGED <<disk, due, bundle>> PROVE DiskType'
  BY <1>1 DEF DiskType, CertOf
<1>2. ASSUME NEW c \in Commands, Truncate(c) PROVE DiskType'
  <2>1. FitsFile(Head(todo[c]).file, Torn)
    BY <1>2, WriteFits, MarksAssumption DEF Truncate, FitsFile, Contents
  <2>2. Put(Head(todo[c]).file, Torn) /\ UNCHANGED <<due, bundle>>
    BY <1>2 DEF Truncate, Put
  <2> QED
    BY <2>1, <2>2, PutFits
<1>3. ASSUME NEW c \in Commands, WriteFile(c) PROVE DiskType'
  <2> DEFINE w == Head(todo[c])
  <2>1. FitsFile(w.file, w.content)
    BY <1>3, WriteFits DEF WriteFile
  <2>2. /\ Put(w.file, w.content) /\ UNCHANGED bundle
        /\ due' = IF w.file[1] = "cert" THEN due \ {w.file[2]} ELSE due
    BY <1>3 DEF WriteFile, Put
  <2>3. \A s \in due' : s \in due /\ w.file # <<"cert", s>>
    BY <2>2
  <2> HIDE DEF w
  <2> QED
    BY <2>1, <2>2, <2>3, PutFits
<1>4. ASSUME NEW f \in Files, RemoveFile(f) PROVE DiskType'
  <2>1. FitsFile(f, Absent)
    BY MarksAssumption DEF FitsFile, Contents
  <2>2. /\ Put(f, Absent) /\ UNCHANGED bundle
        /\ due' = IF f[1] = "cert" THEN due \ {f[2]} ELSE due
    BY <1>4 DEF RemoveFile, Put
  <2>3. \A s \in due' : s \in due /\ f # <<"cert", s>>
    BY <2>2
  <2> QED
    BY <2>1, <2>2, <2>3, PutFits
<1>5. ASSUME NEW s \in Subjects, Expire(s) PROVE DiskType'
  BY <1>5 DEF Expire, DiskType, CertOf, IsCertValid
<1>6. ASSUME UpdateBundle PROVE DiskType'
  <2>1. <<"cert", "anchor">> \in Files
    BY DEF Files
  <2>2. CertOf("anchor") \in Cert \cup {Absent, Torn}
    BY <2>1 DEF DiskType, CertOf, Contents
  <2> QED
    BY <1>6, <2>2 DEF UpdateBundle, DiskType, CertOf
<1>7. ASSUME \/ \E c \in Commands : Begin(c) \/ CheckCa(c) \/ CheckServer(c) \/ WriteFails(c) \/ Kill(c)
             \/ StartServing \/ ServeDefault \/ LoadHostCert \/ TrustCa \/ UNCHANGED vars
             \/ \E h \in Hosts : ServeCached(h) \/ ServeFromDisk(h) \/ GenerateHostCert(h)
      PROVE  DiskType'
  BY <1>1, <1>7 DEF Begin, CheckCa, CheckServer, WriteFails, Kill, StartServing, ServeDefault,
    LoadHostCert, TrustCa, ServeCached, ServeFromDisk, GenerateHostCert, vars
<1> QED
  BY <1>2, <1>3, <1>4, <1>5, <1>6, <1>7 DEF Next

Labels == {"idle", "trusted"} \cup Ensuring \cup Trusting \cup Serving

\* A command that moves on its own takes no type from the other.
LEMMA PhaseMoves ==
  ASSUME NEW c \in Commands, PhaseType, OthersStand(c), pc' \in [Commands -> Labels],
         c = "trust" => pc'[c] \notin Serving, PhaseFits(c)',
         opened' \subseteq {d \in Commands : todo'[d] # <<>>}, regenerated' \subseteq Commands
  PROVE  PhaseType'
<1>1. pc'["trust"] \notin Serving
  BY DEF PhaseType, OthersStand, Commands
<1>2. ASSUME NEW d \in Commands \ {c} PROVE PhaseFits(d)'
  <2>1. PhaseFits(d) /\ pc'[d] = pc[d] /\ todo'[d] = todo[d]
    BY DEF PhaseType, OthersStand
  <2>2. pc[d] = "writeHost" => UNCHANGED resolving
    BY DEF PhaseType, OthersStand, Commands, Serving
  <2> QED
    BY <2>1, <2>2 DEF PhaseFits, Todo, Writing
<1> QED
  BY <1>1, <1>2 DEF PhaseType, Labels

\* To a place where it writes nothing.
LEMMA PhaseRests ==
  ASSUME NEW c \in Commands, NEW label \in Labels \ Writing, PhaseType, Goto(c, label),
         Shapes, \/ UNCHANGED <<todo, opened>>
                 \/ todo' = [todo EXCEPT ![c] = <<>>] /\ opened' = opened \ {c},
         todo'[c] = <<>>, c = "trust" => label \notin Serving,
         c = "proxy" \/ UNCHANGED resolving,
         regenerated' \subseteq Commands,
         \A d \in Commands \ {c} : d \in regenerated' <=> d \in regenerated
  PROVE  PhaseType'
<1>1. pc' \in [Commands -> Labels]
  BY DEF Goto, PhaseType, Labels
<1>2. pc'[c] = label /\ OthersStand(c)
  BY GotoIs DEF OthersStand, Shapes
<1>3. PhaseFits(c)'
  BY <1>2 DEF PhaseFits, Writing
<1>4. opened' \subseteq {d \in Commands : todo'[d] # <<>>}
  <2>1. todo[c] = <<>> => c \notin opened
    BY DEF PhaseType
  <2>2. todo' = todo => todo[c] = <<>>
    OBVIOUS
  <2>3. c \notin opened'
    BY <2>1, <2>2
  <2> QED
    BY <1>2, <2>3 DEF PhaseType, OthersStand
<1> QED
  BY <1>1, <1>2, <1>3, <1>4, PhaseMoves

\* To a pair of files, or the anchor, that it is to write.
LEMMA PhaseWrites ==
  ASSUME NEW c \in Commands, NEW label \in Labels, PhaseType, Goto(c, label), Shapes,
         NEW list, todo' = [todo EXCEPT ![c] = list], list # <<>>,
         UNCHANGED opened, regenerated' \subseteq Commands,
         \A d \in Commands \ {c} : d \in regenerated' <=> d \in regenerated,
         c = "trust" => label \notin Serving,
         c = "proxy" \/ UNCHANGED resolving, PhaseFits(c)'
  PROVE  PhaseType'
<1>1. pc' \in [Commands -> Labels]
  BY DEF Goto, PhaseType, Labels
<1>2. pc'[c] = label /\ OthersStand(c) /\ todo'[c] = list
  BY GotoIs DEF OthersStand, Shapes
<1>3. opened' \subseteq {d \in Commands : todo'[d] # <<>>}
  BY <1>2 DEF PhaseType, OthersStand
<1> QED
  BY <1>1, <1>2, <1>3, PhaseMoves

LEMMA PhaseEnsures ==
  ASSUME Shapes, PhaseType, NEW c \in Commands, Begin(c) \/ CheckCa(c) \/ CheckServer(c)
  PROVE  PhaseType'
<1>1. PhaseFits(c) /\ regenerated \subseteq Commands
  BY DEF PhaseType
<1>2. CASE Begin(c)
  <2>1. "checkCa" \in Labels \ Writing /\ "checkCa" \notin Serving
    BY DEF Labels, Writing, Ensuring, Serving
  <2> QED
    BY <1>1, <1>2, <2>1, PhaseRests DEF Begin, PhaseFits, Writing, resolver
<1>3. CASE CheckCa(c)
  <2>1. CASE Goto(c, "checkServer") /\ UNCHANGED <<todo, regenerated>>
    <3>1. "checkServer" \in Labels \ Writing /\ "checkServer" \notin Serving
      BY DEF Labels, Writing, Ensuring, Serving
    <3> QED
      BY <1>1, <1>3, <2>1, <3>1, PhaseRests DEF CheckCa, PhaseFits, Writing, resolver
  <2>2. CASE /\ Goto(c, "writeCa") /\ Generate(c, "ca", NewKey, NewKey)
             /\ regenerated' = regenerated \cup {c}
    <3>1. "writeCa" \in Labels /\ "writeCa" \notin Serving
      BY DEF Labels, Ensuring, Serving
    <3>2. pc'[c] = "writeCa" /\ todo'[c] = PairOfFiles("ca", NewKey, NewKey) /\ NewKey \in Keys
      BY <2>2, GotoIs, NewKeyIsAKey DEF Generate, Shapes
    <3>3. PhaseFits(c)'
      BY <3>2 DEF PhaseFits, Todo, Writing
    <3>4. PairOfFiles("ca", NewKey, NewKey) # <<>>
      BY DEF PairOfFiles
    <3> QED
      BY <1>1, <1>3, <2>2, <3>1, <3>3, <3>4, PhaseWrites DEF CheckCa, Generate, resolver
  <2> QED
    BY <1>3, <2>1, <2>2 DEF CheckCa
<1>4. CASE CheckServer(c)
  <2>1. ASSUME NEW label \in {"ensured", "idle"}, Goto(c, label), UNCHANGED todo
        PROVE  PhaseType'
    <3>1. label \in Labels \ Writing /\ label \notin Serving
      BY DEF Labels, Writing, Ensuring, Serving
    <3> QED
      BY <1>1, <1>4, <2>1, <3>1, PhaseRests DEF CheckServer, PhaseFits, Writing, resolver
  <2>2. CASE CaLoads /\ Goto(c, "writeServer") /\ Generate(c, "server", NewKey, KeyOf("ca"))
    <3>1. "writeServer" \in Labels /\ "writeServer" \notin Serving
      BY DEF Labels, Ensuring, Serving
    <3>2. /\ pc'[c] = "writeServer" /\ todo'[c] = PairOfFiles("server", NewKey, KeyOf("ca"))
          /\ NewKey \in Keys /\ KeyOf("ca") \in Keys
      BY <2>2, GotoIs, NewKeyIsAKey DEF Generate, Shapes, CaLoads
    <3>3. PhaseFits(c)'
      BY <3>2 DEF PhaseFits, Todo, Writing
    <3>4. PairOfFiles("server", NewKey, KeyOf("ca")) # <<>>
      BY DEF PairOfFiles
    <3> QED
      BY <1>1, <1>4, <2>2, <3>1, <3>3, <3>4, PhaseWrites DEF CheckServer, Generate, resolver
  <2> QED
    BY <1>4, <2>1, <2>2 DEF CheckServer
<1> QED
  BY <1>2, <1>3, <1>4

LEMMA PhaseTruncates ==
  ASSUME Shapes, PhaseType, NEW c \in Commands, Truncate(c)
  PROVE  PhaseType'
<1>1. UNCHANGED <<pc, todo, regenerated, resolving>> /\ opened' = opened \cup {c} /\ todo[c] # <<>>
  BY DEF Truncate, resolver
<1> QED
  BY <1>1 DEF PhaseType, PhaseFits, Todo

LEMMA PhaseAfterWrite ==
  ASSUME Shapes, PhaseType, ResolverType, NEW c \in Commands, WriteFile(c)
  PROVE  PhaseType'
<1>1. PhaseFits(c) /\ pc[c] \in Writing /\ todo[c] # <<>> /\ regenerated \subseteq Commands
  BY WriteFits DEF PhaseType, WriteFile
<1>2. /\ UNCHANGED <<regenerated, resolving>>
      /\ todo' = [todo EXCEPT ![c] = Tail(todo[c])] /\ opened' = opened \ {c}
      /\ IF Len(todo[c]) = 1 THEN Goto(c, After(pc[c])) ELSE UNCHANGED pc
  BY DEF WriteFile, resolver
<1>3. CASE Len(todo[c]) = 1
  <2>1. Tail(todo[c]) = <<>>
    <3>1. CASE pc[c] = "copy"
      <4>1. PICK x : todo[c] = << [file |-> <<"cert", "anchor">>, content |-> x] >>
        BY <1>1, <3>1 DEF PhaseFits
      <4> QED
        BY <4>1
    <3>2. CASE pc[c] # "copy"
      <4>1. PICK s, k, signer : Todo(c, s, k, signer)
        BY <1>1, <3>2 DEF PhaseFits, Writing
      <4>2. PICK w1, w2 : todo[c] = << w1, w2 >> \/ todo[c] = Tail(<< w1, w2 >>)
        BY <4>1 DEF Todo, PairOfFiles
      <4>3. /\ Tail(<< w1, w2 >>) = << w2 >> /\ Len(<< w1, w2 >>) = 2
            /\ Tail(<< w2 >>) = <<>>
        OBVIOUS
      <4>4. todo[c] = << w2 >>
        BY <1>3, <4>2, <4>3
      <4> QED
        BY <4>3, <4>4
    <3> QED
      BY <3>1, <3>2
  <2>2. /\ After(pc[c]) \in Labels \ Writing
        /\ c = "trust" => After(pc[c]) \notin Serving
    BY <1>1 DEF After, Labels, Writing, Ensuring, Trusting, Serving, PhaseType
  <2>3. todo' = [todo EXCEPT ![c] = <<>>] /\ todo'[c] = <<>> /\ Goto(c, After(pc[c]))
    BY <1>2, <1>3, <2>1 DEF Shapes
  <2> QED
    BY <1>1, <1>2, <2>2, <2>3, PhaseRests
<1>4. CASE Len(todo[c]) # 1
  <2>1. PICK s \in Subjects \cup {resolving}, k \in Keys, signer \in Keys :
          /\ todo[c] = PairOfFiles(s, k, signer)
          /\ \/ pc[c] = "writeCa" /\ s = "ca" /\ k = signer
             \/ pc[c] = "writeServer" /\ s = "server"
             \/ pc[c] = "writeHost" /\ s = resolving
    <3>1. pc[c] # "copy"
      <4>1. ASSUME NEW x, todo[c] = << x >> PROVE Len(todo[c]) = 1
        BY <4>1
      <4> QED
        BY <1>1, <1>4, <4>1 DEF PhaseFits
    <3>2. \A s, k, signer : Todo(c, s, k, signer) => todo[c] = PairOfFiles(s, k, signer)
      <4> SUFFICES ASSUME NEW s, NEW k, NEW signer, Todo(c, s, k, signer)
                   PROVE  todo[c] = PairOfFiles(s, k, signer)
        OBVIOUS
      <4>1. PICK w1, w2 : PairOfFiles(s, k, signer) = << w1, w2 >>
        BY DEF PairOfFiles
      <4>2. Len(Tail(<< w1, w2 >>)) = 1
        OBVIOUS
      <4> QED
        BY <1>4, <4>1, <4>2 DEF Todo
    <3>3. CASE pc[c] = "writeCa"
      <4>1. PICK k \in Keys : Todo(c, "ca", k, k)
        BY <1>1, <3>3 DEF PhaseFits
      <4>2. todo[c] = PairOfFiles("ca", k, k)
        BY <3>2, <4>1
      <4> QED
        BY <3>3, <4>2 DEF Subjects
    <3>4. CASE pc[c] = "writeServer"
      <4>1. PICK k, signer \in Keys : Todo(c, "server", k, signer)
        BY <1>1, <3>4 DEF PhaseFits
      <4>2. todo[c] = PairOfFiles("server", k, signer)
        BY <3>2, <4>1
      <4> QED
        BY <3>4, <4>2 DEF Subjects
    <3>5. CASE pc[c] = "writeHost"
      <4>1. PICK k, signer \in Keys : Todo(c, resolving, k, signer)
        BY <1>1, <3>5 DEF PhaseFits
      <4>2. todo[c] = PairOfFiles(resolving, k, signer)
        BY <3>2, <4>1
      <4> QED
        BY <3>5, <4>2 DEF Subjects
    <3> QED
      BY <1>1, <3>1, <3>3, <3>4, <3>5 DEF Writing
  <2>2. Tail(todo[c]) # <<>> /\ todo'[c] = Tail(todo[c])
    <3>1. PICK w1, w2 : todo[c] = << w1, w2 >>
      BY <2>1 DEF PairOfFiles
    <3>2. Tail(<< w1, w2 >>) # <<>>
      OBVIOUS
    <3> QED
      BY <1>2, <3>1, <3>2 DEF Shapes
  <2>3. UNCHANGED pc /\ OthersStand(c)
    BY <1>2, <1>4 DEF OthersStand, Shapes
  <2>4. PhaseFits(c)'
    <3>1. Todo(c, s, k, signer)'
      BY <2>1, <2>2 DEF Todo
    <3> QED
      BY <1>1, <1>2, <2>1, <2>3, <3>1 DEF PhaseFits, Writing
  <2>5. opened' \subseteq {d \in Commands : todo'[d] # <<>>}
    BY <1>2, <2>3 DEF PhaseType, OthersStand
  <2>6. pc' \in [Commands -> Labels] /\ pc'["trust"] \notin Serving
    BY <2>3 DEF PhaseType, Labels
  <2> QED
    BY <1>1, <1>2, <2>3, <2>4, <2>5, <2>6, PhaseMoves
<1> QED
  BY <1>3, <1>4

LEMMA PhaseEnds ==
  ASSUME Shapes, PhaseType, NEW c \in Commands, WriteFails(c) \/ Kill(c)
  PROVE  PhaseType'
<1>1. PICK label \in {"idle", "serving"} :
        Goto(c, label) /\ (label = "serving" => pc[c] = "writeHost")
  BY DEF WriteFails, Kill
<1>2. /\ label \in Labels \ Writing
      /\ c = "trust" => label \notin Serving
  BY <1>1 DEF Labels, Writing, Serving, PhaseType
<1>3. /\ todo' = [todo EXCEPT ![c] = <<>>] /\ opened' = opened \ {c}
      /\ UNCHANGED regenerated /\ (c = "proxy" \/ UNCHANGED resolving)
  BY DEF WriteFails, Kill, Abandon
<1>4. todo'[c] = <<>>
  BY <1>3 DEF Shapes
<1> QED
  BY <1>1, <1>2, <1>3, <1>4, PhaseRests DEF PhaseType

LEMMA PhaseOfProxy ==
  ASSUME Shapes, PhaseType, StartServing \/ LoadHostCert \/ \E h \in Hosts : GenerateHostCert(h)
  PROVE  PhaseType'
<1> DEFINE c == "proxy"
<1>1. c \in Commands /\ c # "trust" /\ PhaseFits(c) /\ regenerated \subseteq Commands
  BY DEF Commands, PhaseType
<1>2. UNCHANGED <<opened, regenerated>>
  BY DEF StartServing, LoadHostCert, GenerateHostCert
<1>3. CASE StartServing \/ LoadHostCert
  <2>1. PICK label \in {"idle", "serving"} : Goto(c, label)
    BY <1>3 DEF StartServing, LoadHostCert
  <2>2. label \in Labels \ Writing
    BY DEF Labels, Writing, Serving
  <2>3. UNCHANGED todo /\ todo'[c] = <<>>
    BY <1>1, <1>3 DEF StartServing, LoadHostCert, PhaseFits, Writing
  <2> QED
    BY <1>1, <1>2, <2>1, <2>2, <2>3, PhaseRests
<1>4. ASSUME NEW h \in Hosts, GenerateHostCert(h) PROVE PhaseType'
  <2>1. CASE UNCHANGED <<pc, todo, resolving>>
    BY <1>2, <2>1 DEF PhaseType, PhaseFits, Todo
  <2>2. CASE /\ CaLoads /\ Generate(c, h, NewKey, KeyOf("ca"))
             /\ resolving' = h /\ Goto(c, "writeHost")
    <3>1. "writeHost" \in Labels
      BY DEF Labels, Serving
    <3>2. /\ pc'[c] = "writeHost" /\ todo'[c] = PairOfFiles(h, NewKey, KeyOf("ca"))
          /\ NewKey \in Keys /\ KeyOf("ca") \in Keys
      BY <1>1, <2>2, GotoIs, NewKeyIsAKey DEF Generate, Shapes, CaLoads
    <3>3. PhaseFits(c)'
      BY <2>2, <3>2 DEF PhaseFits, Todo, Writing
    <3>4. PairOfFiles(h, NewKey, KeyOf("ca")) # <<>>
      BY DEF PairOfFiles
    <3> QED
      BY <1>1, <1>2, <2>2, <3>1, <3>3, <3>4, PhaseWrites DEF Generate
  <2> QED
    BY <1>4, <2>1, <2>2 DEF GenerateHostCert
<1> QED
  BY <1>3, <1>4

LEMMA PhaseOfTrust ==
  ASSUME Shapes, DiskType, PhaseType, TrustCa \/ UpdateBundle
  PROVE  PhaseType'
<1> DEFINE c == "trust"
<1>1. c \in Commands /\ PhaseFits(c) /\ regenerated \subseteq Commands
  BY DEF Commands, PhaseType
<1>2. UNCHANGED <<opened, regenerated, resolving>>
  BY DEF TrustCa, UpdateBundle, resolver
<1>3. ASSUME NEW label \in {"idle", "trusted"}, Goto(c, label), UNCHANGED todo
      PROVE  PhaseType'
  <2>1. label \in Labels \ Writing /\ label \notin Serving
    BY DEF Labels, Writing, Serving
  <2>2. todo'[c] = <<>>
    BY <1>1, <1>3 DEF TrustCa, UpdateBundle, PhaseFits, Writing
  <2> QED
    BY <1>1, <1>2, <1>3, <2>1, <2>2, PhaseRests
<1>4. CASE /\ CertOf("ca") # Absent /\ Goto(c, "copy")
           /\ todo' = [todo EXCEPT ![c] =
                         << [file |-> <<"cert", "anchor">>, content |-> CertOf("ca")] >>]
  <2>1. "copy" \in Labels /\ "copy" \notin Serving
    BY DEF Labels, Trusting, Serving
  <2>2. CertOf("ca") \in Cert \cup {Torn}
    <3>1. <<"cert", "ca">> \in Files
      BY DEF Files, Subjects
    <3> QED
      BY <1>4, <3>1 DEF DiskType, CertOf, Contents
  <2>3. /\ pc'[c] = "copy"
        /\ todo'[c] = << [file |-> <<"cert", "anchor">>, content |-> CertOf("ca")] >>
    BY <1>1, <1>4, GotoIs DEF Shapes
  <2>4. PhaseFits(c)'
    BY <2>2, <2>3 DEF PhaseFits, Writing
  <2>5. << [file |-> <<"cert", "anchor">>, content |-> CertOf("ca")] >> # <<>>
    OBVIOUS
  <2> QED
    BY <1>1, <1>2, <1>4, <2>1, <2>4, <2>5, PhaseWrites
<1> QED
  BY <1>3, <1>4 DEF TrustCa, UpdateBundle

LEMMA PhaseTyped ==
  ASSUME Shapes, DiskType, PhaseType, ResolverType, [Next]_vars
  PROVE  PhaseType'
<1>1. ASSUME NEW c \in Commands,
             \/ Begin(c) \/ CheckCa(c) \/ CheckServer(c)
             \/ Truncate(c) \/ WriteFile(c) \/ WriteFails(c) \/ Kill(c)
      PROVE  PhaseType'
  BY <1>1, PhaseEnsures, PhaseTruncates, PhaseAfterWrite, PhaseEnds
<1>2. ASSUME StartServing \/ LoadHostCert \/ \E h \in Hosts : GenerateHostCert(h)
      PROVE  PhaseType'
  BY <1>2, PhaseOfProxy
<1>3. ASSUME TrustCa \/ UpdateBundle PROVE PhaseType'
  BY <1>3, PhaseOfTrust
<1>4. ASSUME UNCHANGED <<commands, resolving>> PROVE PhaseType'
  BY <1>4 DEF PhaseType, PhaseFits, Todo, commands
<1>5. ASSUME \/ ServeDefault \/ UNCHANGED vars
             \/ \E h \in Hosts : ServeCached(h) \/ ServeFromDisk(h)
             \/ \E f \in Files : RemoveFile(f)
             \/ \E s \in Subjects : Expire(s)
      PROVE  PhaseType'
  BY <1>4, <1>5 DEF ServeDefault, ServeCached, ServeFromDisk, RemoveFile, Expire, vars, resolver
<1> QED
  BY <1>1, <1>2, <1>3, <1>5 DEF Next

LEMMA PairIsKey ==
  ASSUME DiskType, NEW s \in Subjects, MayLoad(s) \/ Loads(s)
  PROVE  Loaded(s) \in CertifiedKey
BY DEF MayLoad, Loads, Loaded, CertifiedKey

LEMMA ResolverTyped ==
  ASSUME Shapes, DiskType, PhaseType, ResolverType, [Next]_vars
  PROVE  ResolverType'
<1> USE DEF Optional
<1>1. /\ "proxy" \in Commands /\ "trust" \in Commands
      /\ \A label \in {"writeHost", "loadHost"} : label \in Serving
      /\ \A s \in Hosts : s \in Subjects /\ s # None
      /\ \A p \in CertifiedKey : p # None
  BY HostsAssumption, MarksAssumption DEF Commands, Serving, Subjects
<1>2. ASSUME UNCHANGED <<resolving, default, cache>>, served' \in {served, default},
             pc'["proxy"] = pc["proxy"] \/ {pc["proxy"], pc'["proxy"]} \cap Serving = {}
      PROVE  ResolverType'
  BY <1>1, <1>2 DEF ResolverType
<1>3. ASSUME NEW c \in Commands, Begin(c) \/ CheckCa(c) \/ CheckServer(c)
      PROVE  ResolverType'
  <2>1. PICK label \in {"checkCa", "checkServer", "writeCa", "ensured", "writeServer", "idle"} :
          Goto(c, label)
    BY <1>3 DEF Begin, CheckCa, CheckServer
  <2>2. pc'["proxy"] = pc["proxy"] \/ {pc["proxy"], pc'["proxy"]} \cap Serving = {}
    BY <1>1, <1>3, <2>1, GotoIs DEF Begin, CheckCa, CheckServer, Serving
  <2> QED
    BY <1>2, <1>3, <2>2 DEF Begin, CheckCa, CheckServer, resolver
<1>4. ASSUME NEW c \in Commands, Truncate(c) PROVE ResolverType'
  BY <1>2, <1>4 DEF Truncate, resolver
<1>5. ASSUME NEW c \in Commands, WriteFile(c) PROVE ResolverType'
  <2>1. UNCHANGED <<resolving, default, cache, served>> /\ pc[c] \in Writing
    BY <1>5, WriteFits DEF WriteFile, resolver
  <2>2. UNCHANGED pc \/ Goto(c, After(pc[c]))
    BY <1>5 DEF WriteFile
  <2>3. CASE UNCHANGED pc \/ c # "proxy"
    BY <1>1, <1>2, <2>1, <2>2, <2>3, GotoIs
  <2>4. CASE c = "proxy" /\ Goto(c, After(pc[c]))
    <3>1. pc'["proxy"] = After(pc["proxy"])
      BY <2>4, GotoIs
    <3> QED
      BY <2>1, <2>4, <3>1 DEF ResolverType, After, Writing, Serving
  <2> QED
    BY <2>2, <2>3, <2>4
<1>6. ASSUME NEW c \in Commands, WriteFails(c) PROVE ResolverType'
  <2>1. /\ UNCHANGED <<default, cache>> /\ served' \in {served, default}
        /\ resolving' = IF c = "proxy" THEN None ELSE resolving
        /\ Goto(c, IF pc[c] = "writeHost" THEN "serving" ELSE "idle") /\ pc[c] \in Writing
    BY <1>6, WriteFits DEF WriteFails, Abandon
  <2>2. CASE c # "proxy"
    BY <1>1, <1>2, <2>1, <2>2, GotoIs
  <2>3. CASE c = "proxy"
    <3>1. pc'["proxy"] = IF pc["proxy"] = "writeHost" THEN "serving" ELSE "idle"
      BY <2>1, <2>3, GotoIs
    <3> QED
      BY <2>1, <2>3, <3>1 DEF ResolverType, Writing, Serving
  <2> QED
    BY <2>2, <2>3
<1>7. ASSUME NEW c \in Commands, Kill(c) PROVE ResolverType'
  <2>1. /\ Goto(c, "idle") /\ UNCHANGED cache
        /\ resolving' = IF c = "proxy" THEN None ELSE resolving
        /\ IF c = "proxy" THEN default' = None /\ served' = None
                          ELSE UNCHANGED <<default, served>>
    BY <1>7 DEF Kill, Abandon
  <2>2. CASE c # "proxy"
    BY <1>1, <1>2, <2>1, <2>2, GotoIs
  <2>3. CASE c = "proxy"
    BY <2>1, <2>3, GotoIs DEF ResolverType, Serving
  <2> QED
    BY <2>2, <2>3
<1>8. CASE StartServing
  <2>1. pc["proxy"] = "ensured" /\ UNCHANGED resolving
    BY <1>8 DEF StartServing
  <2>2. CASE Goto("proxy", "idle") /\ UNCHANGED <<default, cache, served>>
    BY <1>1, <1>2, <2>1, <2>2, GotoIs DEF Serving
  <2>3. CASE /\ MayLoad("server") /\ default' = Loaded("server") /\ served' = None
             /\ cache' = [h \in Hosts |-> None] /\ Goto("proxy", "serving")
    <3>1. Loaded("server") \in CertifiedKey
      BY <2>3, PairIsKey DEF Subjects
    <3>2. pc'["proxy"] = "serving"
      BY <1>1, <2>3, GotoIs
    <3> QED
      BY <1>1, <2>1, <2>3, <3>1, <3>2 DEF ResolverType, Serving
  <2> QED
    BY <1>8, <2>2, <2>3 DEF StartServing
<1>9. ASSUME NEW h \in Hosts, NEW p \in CertifiedKey, Remember(h, p)
      PROVE  \A g \in Hosts : cache'[g] \in Optional(CertifiedKey)
  <2>1. \A g \in Hosts : cache'[g] \in {p, cache[g]}
    BY <1>9 DEF Remember, Shapes
  <2> QED
    BY <2>1 DEF ResolverType
<1>10. CASE LoadHostCert
  <2>1. /\ pc["proxy"] = "loadHost" /\ UNCHANGED default /\ resolving' = None
        /\ pc'["proxy"] = "serving"
    BY <1>1, <1>10, GotoIs DEF LoadHostCert
  <2>2. resolving \in Hosts
    BY <2>1 DEF ResolverType
  <2>3. CASE served' = default /\ UNCHANGED cache
    BY <2>1, <2>3 DEF ResolverType, Serving
  <2>4. CASE /\ MayLoad(resolving) /\ served' = Loaded(resolving)
             /\ Remember(resolving, Loaded(resolving))
    <3>1. Loaded(resolving) \in CertifiedKey
      BY <1>1, <2>2, <2>4, PairIsKey
    <3> QED
      BY <1>9, <2>1, <2>2, <2>4, <3>1 DEF ResolverType, Serving
  <2> QED
    BY <1>10, <2>3, <2>4 DEF LoadHostCert
<1>11. ASSUME NEW h \in Hosts, ServeCached(h) \/ ServeFromDisk(h) \/ ServeDefault
       PROVE  ResolverType'
  <2>1. UNCHANGED <<resolving, default, pc>>
    BY <1>11 DEF ServeCached, ServeFromDisk, ServeDefault, commands
  <2>2. CASE ServeCached(h) \/ ServeDefault
    BY <2>1, <2>2 DEF ServeCached, ServeDefault, ResolverType
  <2>3. CASE ServeFromDisk(h)
    <3>1. served' = Loaded(h) /\ Loaded(h) \in CertifiedKey /\ Remember(h, Loaded(h))
      BY <1>1, <2>3, PairIsKey DEF ServeFromDisk
    <3> QED
      BY <1>9, <2>1, <3>1 DEF ResolverType
  <2> QED
    BY <1>11, <2>2, <2>3
<1>12. ASSUME NEW h \in Hosts, GenerateHostCert(h) PROVE ResolverType'
  <2>1. pc["proxy"] = "serving" /\ UNCHANGED <<default, cache>>
    BY <1>12 DEF GenerateHostCert
  <2>2. CASE served' = default /\ UNCHANGED <<pc, resolving>>
    BY <1>2, <2>1, <2>2
  <2>3. CASE resolving' = h /\ Goto("proxy", "writeHost") /\ UNCHANGED served
    <3>1. pc'["proxy"] = "writeHost"
      BY <1>1, <2>3, GotoIs
    <3> QED
      BY <1>1, <2>1, <2>3, <3>1 DEF ResolverType, Serving
  <2> QED
    BY <1>12, <2>2, <2>3 DEF GenerateHostCert
<1>13. CASE TrustCa \/ UpdateBundle
  <2>1. pc'["proxy"] = pc["proxy"] /\ UNCHANGED <<resolving, default, cache, served>>
    BY <1>1, <1>13, GotoIs DEF TrustCa, UpdateBundle, resolver
  <2> QED
    BY <1>2, <2>1
<1>14. ASSUME \/ ServeDefault \/ UNCHANGED vars \/ \E f \in Files : RemoveFile(f)
              \/ \E s \in Subjects : Expire(s)
       PROVE  ResolverType'
  <2>1. UNCHANGED <<resolving, default, cache, pc>> /\ served' \in {served, default}
    BY <1>14 DEF ServeDefault, vars, RemoveFile, Expire, commands, resolver
  <2> QED
    BY <1>2, <2>1
<1> QED
  BY <1>3, <1>4, <1>5, <1>6, <1>7, <1>8, <1>10, <1>11, <1>12, <1>13, <1>14 DEF Next

LEMMA HistoryTyped == HistoryType /\ [Next]_vars => HistoryType'
<1> SUFFICES ASSUME HistoryType, [Next]_vars PROVE HistoryType'
  OBVIOUS
<1> DEFINE Kept(old, new) == new = old \/ new \in BOOLEAN
<1>1. /\ Kept(overlapped, overlapped') /\ Kept(cut, cut') /\ Kept(removed, removed')
      /\ Kept(caExpired, caExpired') /\ Kept(updateCut, updateCut')
      /\ UNCHANGED mishaps \/ Mishap
  <2> USE DEF history
  <2>1. ASSUME NEW c \in Commands, Begin(c) \/ CheckCa(c) \/ CheckServer(c) PROVE <1>1!:
    BY <2>1, Zenon DEF Begin, CheckCa, CheckServer
  <2>2. ASSUME NEW c \in Commands, Truncate(c) \/ WriteFile(c) PROVE <1>1!:
    BY <2>2, Zenon DEF Truncate, WriteFile
  <2>3. ASSUME NEW c \in Commands, WriteFails(c) PROVE <1>1!:
    BY <2>3, Zenon DEF WriteFails
  <2>4. ASSUME NEW c \in Commands, Kill(c) PROVE <1>1!:
    <3>1. updateCut' = (updateCut \/ pc[c] = "update")
      BY <2>4, Zenon DEF Kill
    <3>2. updateCut' \in BOOLEAN
      BY <3>1
    <3> QED
      BY <2>4, <3>2, Zenon DEF Kill
  <2>5. CASE StartServing \/ ServeDefault \/ LoadHostCert \/ TrustCa \/ UpdateBundle \/ UNCHANGED vars
    BY <2>5, Zenon DEF StartServing, ServeDefault, LoadHostCert, TrustCa, UpdateBundle, vars
  <2>6. ASSUME NEW h \in Hosts, ServeCached(h) \/ ServeFromDisk(h) \/ GenerateHostCert(h)
        PROVE  <1>1!:
    BY <2>6, Zenon DEF ServeCached, ServeFromDisk, GenerateHostCert
  <2>7. ASSUME NEW f \in Files, RemoveFile(f) PROVE <1>1!:
    <3>1. overlapped' = (overlapped \/ \E c \in Commands : Busy(c))
      BY <2>7, Zenon DEF RemoveFile
    <3>2. overlapped' \in BOOLEAN
      BY <3>1
    <3> QED
      BY <2>7, <3>2, Zenon DEF RemoveFile
  <2>8. ASSUME NEW s \in Subjects, Expire(s) PROVE <1>1!:
    <3>1. caExpired' = (caExpired \/ s = "ca")
      BY <2>8, Zenon DEF Expire
    <3>2. caExpired' \in BOOLEAN
      BY <3>1
    <3> QED
      BY <2>8, <3>2, Zenon DEF Expire
  <2> QED
    BY <2>1, <2>2, <2>3, <2>4, <2>5, <2>6, <2>7, <2>8 DEF Next
<1>2. mishaps' \in 0..MaxMishaps
  BY <1>1, BoundsAssumption DEF HistoryType, Mishap
<1>3. \A old, new : old \in BOOLEAN /\ Kept(old, new) => new \in BOOLEAN
  OBVIOUS
<1> HIDE DEF Kept
<1> QED
  BY <1>1, <1>2, <1>3, Zenon DEF HistoryType

\* Every variable has its type, also when commands ensure certificates at once
\* and read what the other has half written: what a handshake gets has a whole
\* key, and a proxy has a default to answer with for as long as it serves.
THEOREM TypeCorrect == Spec => []TypeOK
<1>1. TypeInv => TypeOK
  <2> SUFFICES ASSUME TypeInv PROVE TypeOK
    OBVIOUS
  <2> USE DEF TypeInv
  <2>1. ASSUME NEW c \in Commands
        PROVE  /\ \A i \in DOMAIN todo[c] : todo[c][i] \in Write
               /\ Len(todo[c]) \in CASE pc[c] \in {"writeCa", "writeServer", "writeHost"} -> {1, 2}
                                     [] pc[c] = "copy" -> {1}
                                     [] OTHER -> {0}
    <3>1. PhaseFits(c)
      BY DEF PhaseType
    <3>2. CASE pc[c] \notin Writing
      <4>1. todo[c] = <<>>
        BY <3>1, <3>2 DEF PhaseFits
      <4> QED
        BY <3>2, <4>1 DEF Writing
    <3>3. CASE pc[c] = "copy"
      <4>1. PICK x \in Cert \cup {Torn} :
              todo[c] = << [file |-> <<"cert", "anchor">>, content |-> x] >>
        BY <3>1, <3>3 DEF PhaseFits
      <4>2. [file |-> <<"cert", "anchor">>, content |-> x] \in Write
        BY DEF Write, Files, Contents
      <4> QED
        BY <3>3, <4>1, <4>2
    <3>4. CASE pc[c] \in {"writeCa", "writeServer", "writeHost"}
      <4>1. PICK s \in Subjects, k \in Keys, signer \in Keys : Todo(c, s, k, signer)
        <5>1. pc[c] = "writeHost" => resolving \in Hosts
          BY DEF PhaseType, ResolverType, Optional, Serving, Commands
        <5> QED
          BY <3>1, <3>4, <5>1 DEF PhaseFits, Subjects
      <4>2. (\A i \in DOMAIN todo[c] : todo[c][i] \in Write) /\ Len(todo[c]) \in {1, 2}
        BY <4>1, PairFits
      <4> QED
        BY <3>4, <4>2
    <3> QED
      BY <3>2, <3>3, <3>4 DEF Writing
  <2>2. {overlapped, cut, removed, caExpired, updateCut} \subseteq BOOLEAN
    BY Zenon DEF HistoryType
  <2>3. /\ {default, served} \cup {cache[h] : h \in Hosts} \subseteq Optional(CertifiedKey)
        /\ resolving \in Optional(Hosts)
        /\ (resolving # None) <=> (pc["proxy"] \in {"writeHost", "loadHost"})
        /\ (default # None) <=> (pc["proxy"] \in Serving)
    BY DEF ResolverType
  <2>4. /\ pc \in [Commands -> {"idle", "trusted"} \cup Ensuring \cup Trusting \cup Serving]
        /\ pc["trust"] \notin Serving
        /\ opened \subseteq {c \in Commands : todo[c] # <<>>}
        /\ regenerated \subseteq Commands
    BY DEF PhaseType
  <2>5. mishaps \in 0..MaxMishaps
    BY DEF HistoryType
  <2> HIDE DEF TypeInv
  <2>6. DiskType
    BY DEF TypeInv
  <2> QED
    BY <2>1, <2>2, <2>3, <2>4, <2>5, <2>6 DEF TypeOK, DiskType
<1>2. TypeInv /\ [Next]_vars => TypeInv'
  BY ShapesStep, DiskTyped, PhaseTyped, ResolverTyped, HistoryTyped DEF TypeInv
<1> QED
  BY <1>1, <1>2, InitTyped, PTL DEF Spec
===============================================================================
