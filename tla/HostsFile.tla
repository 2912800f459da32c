------------------------------ MODULE HostsFile ------------------------------
(***************************************************************************)
(* `nsl hosts sync` and `nsl hosts clean` (crates/nsl/src/hosts/mod.rs):   *)
(* the block of hostnames that nsl keeps between two marker lines of       *)
(* /etc/hosts, and how the file is replaced.  Nothing keeps two commands   *)
(* apart, and both write the same temporary file, so the directory and the *)
(* open files are modelled: a name leads to an inode, and a command writes *)
(* to the inode it opened, whatever name leads to it by then.              *)
(*                                                                         *)
(* A file is a sequence of lines.  A hostname stands for its "127.0.0.1"   *)
(* line, and "garbage" for what is left of a line that was written over.   *)
(***************************************************************************)
EXTENDS Naturals, SequencesExt

CONSTANTS Commands, Names, Foreign,
          MaxBegun,  \* bound on the commands begun
          Initial,   \* the files that nsl may find, NoFile for none
          Inodes, NoFile

Markers == {"# nsl-start", "# nsl-end"}
Lines   == Markers \cup {"blank", "garbage"} \cup Names \cup Foreign

ASSUME InodesSuffice ==
  /\ IsFiniteSet(Commands) /\ IsFiniteSet(Inodes) /\ NoFile \notin Inodes
  /\ Cardinality(Inodes) = 2 + Cardinality(Commands)
ASSUME MaxBegunAssumption == MaxBegun \in Nat

\* A route has a name, no line of another is one of nsl's.
ASSUME LinesAssumption ==
  /\ IsFiniteSet(Names) /\ Names \cap Foreign = {}
  /\ (Markers \cup {"blank", "garbage"}) \cap (Names \cup Foreign) = {}

\* A file that nsl finds holds the block of one nsl at most.
ASSUME InitialAssumption ==
  \A file \in Initial \ {NoFile} :
    /\ file \in Seq(Lines \ {"garbage"})
    /\ \A m \in Markers : Cardinality({i \in DOMAIN file : file[i] = m}) <= 1

VARIABLES
  hosts,     \* the inode of /etc/hosts
  tmp,       \* the inode of /etc/.nsl-hosts.tmp
  data,      \* the lines of each inode
  pc, op, wants,  \* of each command: where it is, what it does, for which names
  content,   \* of each command: what it writes
  fd,        \* of each command: the inode it has opened
  foreign,   \* history: the lines of others, as nsl found them
  alone,     \* history: commands in whose time no other ran
  begun,     \* history: commands begun
  crowd,     \* history: commands begun since none was running
  crowded,   \* history: three commands overlapped, one after the other or at once
  overlapped, stopped, refused  \* history: two commands overlapped; one was
                                \* killed or failed; a rename was refused

command == <<pc, op, wants, content, fd>>
history == <<foreign, alone, begun, crowd, crowded, overlapped, stopped, refused>>
vars    == <<hosts, tmp, data, command, history>>

Resting == {"idle", "done"}
File    == IF hosts = NoFile THEN <<>> ELSE data[hosts]

-------------------------------------------------------------------------------
(* The block                                                                *)

\* Variant with a fault: the end marker does not end the block.
RemoveBlockToTheEnd(lines) ==
  FoldLeft(LAMBDA acc, line :
             IF line = "# nsl-start" THEN [acc EXCEPT !.inside = TRUE]
             ELSE IF acc.inside \/ line = "# nsl-end" THEN acc
             ELSE [acc EXCEPT !.result = Append(@, line)],
           [inside |-> FALSE, result |-> <<>>], lines).result

\* One turn of the loop of remove_block.
Turn(acc, line) ==
  IF line \in Markers
  THEN [inside |-> line = "# nsl-start", result |-> acc.result]
  ELSE IF acc.inside THEN acc
  ELSE [inside |-> FALSE, result |-> Append(acc.result, line)]

\* after[n] is the state of the loop after n lines.
RemoveBlock(lines) ==
  LET after[n \in 0..Len(lines)] ==
        IF n = 0 THEN [inside |-> FALSE, result |-> <<>>]
        ELSE Turn(after[n - 1], lines[n])
  IN  after[Len(lines)].result

\* extract_managed_block: the lines up to the first end marker, from the first
\* start marker on; a block without an end is none.
Ends(lines)       == {i \in DOMAIN lines : lines[i] = "# nsl-end"}
HasBlock(lines)   == Ends(lines) # {}
FirstEnd(lines)   == CHOOSE i \in Ends(lines) : \A j \in Ends(lines) : i <= j
InBlock(lines, i) == /\ HasBlock(lines) /\ i < FirstEnd(lines)
                     /\ \E j \in 1..(i - 1) : lines[j] = "# nsl-start"
ManagedHostnames(lines) ==
  {lines[i] : i \in {j \in DOMAIN lines : InBlock(lines, j)}} \cap Names

TrimEnd(lines) ==
  LET last == {i \in DOMAIN lines : lines[i] # "blank"}
  IN  SubSeq(lines, 1, IF last = {} THEN 0 ELSE CHOOSE i \in last : \A j \in last : j <= i)

\* build_block, of the sorted names
Block(hostnames) == <<"# nsl-start">> \o SetToSeq(hostnames) \o <<"# nsl-end">>

\* Variant with a fault: the new block is added to the old one.
SyncedAdding(lines, hostnames) == TrimEnd(lines) \o Block(hostnames)

Synced(lines, hostnames) == TrimEnd(RemoveBlock(lines)) \o Block(hostnames)

-------------------------------------------------------------------------------

\* The lines at some places, in their order.
Picked(lines, places) ==
  [n \in 1..Cardinality(places) |->
     lines[CHOOSE i \in places : Cardinality({j \in places : j <= i}) = n]]

\* What is no part of a block: the reference for RemoveBlock.
Inside(lines, i) ==
  \E j \in 1..(i - 1) : /\ lines[j] = "# nsl-start"
                        /\ \A k \in j..(i - 1) : lines[k] # "# nsl-end"
OutsidePlaces(lines) ==
  {i \in DOMAIN lines : lines[i] \notin Markers /\ ~Inside(lines, i)}
Outside(lines)  == Picked(lines, OutsidePlaces(lines))
OfOthers(lines) == Picked(lines, {i \in DOMAIN lines : lines[i] \in Foreign})

Init ==
  /\ \E file \in Initial, i \in Inodes :
       /\ i = CHOOSE j \in Inodes : TRUE
       /\ hosts = IF file = NoFile THEN NoFile ELSE i
       /\ data = [j \in Inodes |-> IF j = i /\ file # NoFile THEN file ELSE <<>>]
       /\ foreign = IF file = NoFile THEN <<>> ELSE TrimEnd(Outside(file))
  /\ tmp = NoFile
  /\ pc = [c \in Commands |-> "idle"]
  /\ op = [c \in Commands |-> "sync"]
  /\ wants = [c \in Commands |-> {}]
  /\ content = [c \in Commands |-> <<>>]
  /\ fd = [c \in Commands |-> NoFile]
  /\ alone = {} /\ begun = 0 /\ crowd = 0
  /\ crowded = FALSE /\ overlapped = FALSE /\ stopped = FALSE /\ refused = FALSE

Goto(c, label) == pc' = [pc EXCEPT ![c] = label]

Forget(c) ==
  /\ content' = [content EXCEPT ![c] = <<>>]
  /\ wants' = [wants EXCEPT ![c] = {}]
  /\ op' = [op EXCEPT ![c] = "sync"]

Begun(c) ==
  LET others == {d \in Commands \ {c} : pc[d] \notin Resting}
      n      == IF others = {} THEN 1 ELSE crowd + 1
  IN  /\ alone' = IF others = {} THEN alone \cup {c} ELSE alone \ (others \cup {c})
      /\ overlapped' = (overlapped \/ others # {})
      /\ begun < MaxBegun /\ begun' = begun + 1
      /\ crowd' = n
      /\ crowded' = (crowded \/ n >= 3)
      /\ UNCHANGED <<foreign, stopped, refused>>

\* The names are those of the routes at that moment.  A sync without a route returns before it looks at the file.
BeginSync(c, names) ==
  /\ pc[c] \in Resting
  /\ names # {}
  /\ op' = [op EXCEPT ![c] = "sync"]
  /\ wants' = [wants EXCEPT ![c] = names]
  /\ Goto(c, "read")
  /\ Begun(c)
  /\ UNCHANGED <<hosts, tmp, data, content, fd>>

BeginClean(c) ==
  /\ pc[c] \in Resting
  /\ op' = [op EXCEPT ![c] = "clean"]
  /\ wants' = [wants EXCEPT ![c] = {}]
  /\ Goto(c, "read")
  /\ Begun(c)
  /\ UNCHANGED <<hosts, tmp, data, content, fd>>

ReadForSync(c) ==
  /\ pc[c] = "read" /\ op[c] = "sync"
  /\ content' = [content EXCEPT ![c] = Synced(File, wants[c])]
  /\ Goto(c, "openTmp")
  /\ UNCHANGED <<hosts, tmp, data, op, wants, fd, history>>

ReadForClean(c) ==
  /\ pc[c] = "read" /\ op[c] = "clean"
  /\ \/ ~HasBlock(File) /\ Goto(c, "done") /\ Forget(c)
     \/ /\ HasBlock(File)
        /\ content' = [content EXCEPT ![c] = RemoveBlock(File)]
        /\ Goto(c, "openTmp")
        /\ UNCHANGED <<op, wants>>
  /\ UNCHANGED <<hosts, tmp, data, fd, history>>

-------------------------------------------------------------------------------
(* write_hosts_atomic                                                       *)

FreeInode ==
  CHOOSE i \in Inodes : i \notin {hosts, tmp} \cup {fd[c] : c \in Commands}

\* open with O_TRUNC and O_CREAT; `at` is where the name leads.
Open(c, at) ==
  /\ fd' = [fd EXCEPT ![c] = at]
  /\ data' = [data EXCEPT ![at] = <<>>]

CommonPrefix(a, b) ==
  LET same == {n \in 0..Len(a) : n <= Len(b) /\ \A i \in 1..n : a[i] = b[i]}
  IN  CHOOSE n \in same : \A m \in same : m <= n

\* Written from the start of the file over what another has written to it: of
\* that the end remains, if it was longer.
Overwritten(old, new) ==
  {new} \cup { new \o torn \o SubSeq(old, k, Len(old)) :
                 torn \in {<<>>, <<"garbage">>},
                 k \in (CommonPrefix(new, old) + 1)..(IF old = <<>> THEN 0 ELSE Len(old)) }

WriteOpened(c) ==
  /\ data' \in {[data EXCEPT ![fd[c]] = d] : d \in Overwritten(data[fd[c]], content[c])}
  /\ fd' = [fd EXCEPT ![c] = NoFile]

\* Variant with a fault: the file is written in place.
OpenTmpInPlace(c) ==
  /\ pc[c] = "openTmp"
  /\ LET at == IF hosts = NoFile THEN FreeInode ELSE hosts
     IN  Open(c, at) /\ hosts' = at
  /\ Goto(c, "writeHosts")
  /\ UNCHANGED <<tmp, op, wants, content, history>>

OpenTmp(c) ==
  /\ pc[c] = "openTmp"
  /\ LET at == IF tmp = NoFile THEN FreeInode ELSE tmp
     IN  Open(c, at) /\ tmp' = at
  /\ Goto(c, "writeTmp")
  /\ UNCHANGED <<hosts, op, wants, content, history>>

WriteTmp(c) ==
  /\ pc[c] = "writeTmp"
  /\ WriteOpened(c)
  /\ Goto(c, "rename")
  /\ UNCHANGED <<hosts, tmp, op, wants, content, history>>

Rename(c) ==
  /\ pc[c] = "rename" /\ tmp # NoFile
  /\ hosts' = tmp /\ tmp' = NoFile
  /\ Goto(c, "done")
  /\ Forget(c)
  /\ UNCHANGED <<data, fd, history>>

\* Another has renamed the file, or the system refuses (a bind mount, say).
RenameFails(c) ==
  /\ pc[c] = "rename"
  /\ refused' = (refused \/ tmp # NoFile)
  /\ Goto(c, "removeTmp")
  /\ UNCHANGED <<hosts, tmp, data, op, wants, content, fd,
                 foreign, alone, begun, crowd, crowded, overlapped, stopped>>

RemoveTmp(c) ==
  /\ pc[c] = "removeTmp"
  /\ tmp' = NoFile
  /\ Goto(c, "openHosts")
  /\ UNCHANGED <<hosts, data, op, wants, content, fd, history>>

OpenHosts(c) ==
  /\ pc[c] = "openHosts"
  /\ LET at == IF hosts = NoFile THEN FreeInode ELSE hosts
     IN  Open(c, at) /\ hosts' = at
  /\ Goto(c, "writeHosts")
  /\ UNCHANGED <<tmp, op, wants, content, history>>

WriteHosts(c) ==
  /\ pc[c] = "writeHosts"
  /\ WriteOpened(c)
  /\ Goto(c, "done")
  /\ Forget(c)
  /\ UNCHANGED <<hosts, tmp, history>>

\* Variant with a fault: a command that ends keeps its file open.
StopsHoldingFile(c) ==
  /\ pc[c] \notin Resting
  /\ stopped' = TRUE
  /\ Goto(c, "idle")
  /\ Forget(c)
  /\ UNCHANGED <<hosts, tmp, data, fd,
                 foreign, alone, begun, crowd, crowded, overlapped, refused>>

\* Killed, or a read, an open or a write fails.
Stops(c) ==
  /\ pc[c] \notin Resting
  /\ stopped' = TRUE
  /\ Goto(c, "idle")
  /\ fd' = [fd EXCEPT ![c] = NoFile]
  /\ Forget(c)
  /\ UNCHANGED <<hosts, tmp, data,
                 foreign, alone, begun, crowd, crowded, overlapped, refused>>

Next ==
  \/ \E c \in Commands :
       \/ \E names \in SUBSET Names : BeginSync(c, names)
       \/ BeginClean(c) \/ ReadForSync(c) \/ ReadForClean(c)
       \/ OpenTmp(c) \/ WriteTmp(c) \/ Rename(c) \/ RenameFails(c)
       \/ RemoveTmp(c) \/ OpenHosts(c) \/ WriteHosts(c) \/ Stops(c)

Spec == Init /\ [][Next]_vars

-------------------------------------------------------------------------------
(* Properties                                                               *)

\* Every variable has its type; a file is open between its opening and its
\* writing only.
TypeOK ==
  /\ {hosts, tmp} \subseteq Inodes \cup {NoFile}
  /\ hosts = tmp => hosts = NoFile
  /\ data \in [Inodes -> Seq(Lines)]
  /\ pc \in [Commands -> Resting \cup {"read", "openTmp", "writeTmp", "rename",
                                      "removeTmp", "openHosts", "writeHosts"}]
  /\ op \in [Commands -> {"sync", "clean"}]
  /\ wants \in [Commands -> SUBSET Names]
  /\ content \in [Commands -> Seq(Lines)]
  /\ fd \in [Commands -> Inodes \cup {NoFile}]
  /\ \A c \in Commands : (fd[c] # NoFile) <=> (pc[c] \in {"writeTmp", "writeHosts"})
  /\ foreign \in Seq(Lines)
  /\ alone \subseteq Commands /\ {begun, crowd} \subseteq 0..MaxBegun
  /\ {crowded, overlapped, stopped, refused} \subseteq BOOLEAN

\* Commands that run one at a time, if no rename is refused, never let a reader
\* see anything but the whole file: the lines of others in their order and one
\* block at most, wherever a command is and wherever one was killed.
AtomicWhenAlone ==
  ~overlapped /\ ~refused =>
    /\ TrimEnd(Outside(File)) = foreign
    /\ \A m \in Markers : Cardinality({i \in DOMAIN File : File[i] = m}) <= 1
    /\ "garbage" \notin ToSet(File)

\* Two commands at once leave the lines of others as they were when both have
\* ended, though one may have truncated or renamed the other's temporary file;
\* if one is killed, a rename is refused or a third comes in, they may be lost.
TwoAtOnceKeepForeignLines ==
  ~crowded /\ ~stopped /\ ~refused /\ (\A c \in Commands : pc[c] \in Resting) =>
    OfOthers(Outside(File)) = OfOthers(foreign)

\* A command that ran alone did what it says: the block lists the names of the
\* route table as a sync read it, and after a clean there is none, whatever
\* commands that overlapped, failed or were killed had left behind.
SyncTakesEffect ==
  [][ \A c \in Commands :
        pc[c] # "done" /\ pc'[c] = "done" /\ c \in alone' =>
          ManagedHostnames(File') = wants[c] ]_vars
===============================================================================
