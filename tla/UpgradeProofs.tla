---------------------------- MODULE UpgradeProofs ----------------------------
(***************************************************************************)
(* The two streams of Upgrade arrive once and in order, for heads, bodies  *)
(* and clients of any length, however they are cut into reads.             *)
(***************************************************************************)
EXTENDS Upgrade, SequenceTheorems, TLAPS

-------------------------------------------------------------------------------
(* Pieces                                                                   *)

LEMMA PiecesSeq ==
  ASSUME NEW from \in Nat, NEW to \in Nat, from <= to
  PROVE  /\ Pieces(from, to) \in Seq(Nat)
         /\ Len(Pieces(from, to)) = to - from
         /\ \A i \in 1..(to - from) : Pieces(from, to)[i] = from + i
<1>1. Pieces(from, to) \in [1..(to - from) -> Nat]
  BY DEF Pieces
<1>2. Pieces(from, to) \in Seq(Nat)
  BY <1>1, SeqDef
<1>3. Len(Pieces(from, to)) \in Nat /\ DOMAIN Pieces(from, to) = 1..Len(Pieces(from, to))
  BY <1>2, LenProperties
<1>4. DOMAIN Pieces(from, to) = 1..(to - from)
  BY <1>1
<1>5. Len(Pieces(from, to)) = to - from
  BY <1>3, <1>4
<1> QED
  BY <1>2, <1>5 DEF Pieces

LEMMA NoPieces == ASSUME NEW n \in Nat PROVE Pieces(n, n) = <<>>
<1>1. Pieces(n, n) \in Seq(Nat) /\ Len(Pieces(n, n)) = 0
  BY PiecesSeq
<1> QED
  BY <1>1, EmptySeq

\* What is read next follows what was read.
LEMMA PiecesJoin ==
  ASSUME NEW a \in Nat, NEW b \in Nat, NEW c \in Nat, a <= b, b <= c
  PROVE  Pieces(a, b) \o Pieces(b, c) = Pieces(a, c)
<1>1. /\ Pieces(a, b) \in Seq(Nat) /\ Len(Pieces(a, b)) = b - a
      /\ \A i \in 1..(b - a) : Pieces(a, b)[i] = a + i
  BY PiecesSeq
<1>2. /\ Pieces(b, c) \in Seq(Nat) /\ Len(Pieces(b, c)) = c - b
      /\ \A i \in 1..(c - b) : Pieces(b, c)[i] = b + i
  BY PiecesSeq
<1>3. /\ Pieces(a, c) \in Seq(Nat) /\ Len(Pieces(a, c)) = c - a
      /\ \A i \in 1..(c - a) : Pieces(a, c)[i] = a + i
  <2>1. a <= c
    OBVIOUS
  <2> QED
    BY <2>1, PiecesSeq
<1> DEFINE both == Pieces(a, b) \o Pieces(b, c)
<1>4. /\ both \in Seq(Nat) /\ Len(both) = c - a
      /\ \A i \in 1..(c - a) :
           both[i] = IF i <= b - a THEN Pieces(a, b)[i] ELSE Pieces(b, c)[i - (b - a)]
  <2>1. /\ Len(Pieces(a, b)) + Len(Pieces(b, c)) = c - a
        /\ Len(Pieces(a, b)) = b - a
    BY <1>1, <1>2
  <2>2. /\ both \in Seq(Nat)
        /\ Len(both) = Len(Pieces(a, b)) + Len(Pieces(b, c))
        /\ \A i \in 1..(Len(Pieces(a, b)) + Len(Pieces(b, c))) :
             both[i] = IF i <= Len(Pieces(a, b)) THEN Pieces(a, b)[i]
                       ELSE Pieces(b, c)[i - Len(Pieces(a, b))]
    BY <1>1, <1>2, ConcatProperties
  <2> QED
    BY <2>1, <2>2
<1>5. ASSUME NEW i \in 1..(c - a) PROVE both[i] = Pieces(a, c)[i]
  <2>1. CASE i <= b - a
    BY <1>1, <1>3, <1>4, <2>1
  <2>2. CASE ~(i <= b - a)
    <3>1. i - (b - a) \in 1..(c - b)
      BY <2>2
    <3>2. Pieces(b, c)[i - (b - a)] = b + (i - (b - a))
      BY <3>1, <1>2
    <3>3. b + (i - (b - a)) = a + i
      OBVIOUS
    <3> QED
      BY <1>3, <1>4, <2>2, <3>2, <3>3
  <2> QED
    BY <2>1, <2>2
<1> QED
  BY <1>3, <1>4, <1>5, SeqEqual

-------------------------------------------------------------------------------
(* The streams as the properties state them                                 *)

LEMMA RequestFirst == << 0 >> = << 0 >> \o Pieces(0, 0)
<1>1. << 0 >> \in Seq(Nat)
  OBVIOUS
<1> QED
  BY <1>1, NoPieces, ConcatEmptySeq

LEMMA RequestAndPieces ==
  ASSUME NEW n \in Nat, upGot = << 0 >> \o Pieces(0, n)
  PROVE  UpstreamSeesTheStream
<1>1. Pieces(0, n) \in Seq(Nat) /\ Len(Pieces(0, n)) = n
  BY PiecesSeq
<1>2. << 0 >> \in Seq(Nat) /\ Len(<< 0 >>) = 1
  OBVIOUS
<1>3. Len(upGot) = 1 + n
  BY <1>1, <1>2, ConcatProperties
<1>4. Len(upGot) - 1 = n
  BY <1>3
<1> QED
  BY <1>4 DEF UpstreamSeesTheStream

LEMMA RequestAlone ==
  ASSUME upGot \in {<<>>, << 0 >>}
  PROVE  UpstreamSeesTheStream
<1>1. CASE upGot = <<>>
  BY <1>1 DEF UpstreamSeesTheStream
<1>2. CASE upGot = << 0 >>
  <2>1. upGot = << 0 >> \o Pieces(0, 0)
    BY <1>2, RequestFirst
  <2> QED
    BY <2>1, RequestAndPieces
<1> QED
  BY <1>1, <1>2

LEMMA PiecesAfterHead ==
  ASSUME script.head \in Nat, NEW n \in Nat, script.head <= n,
         got = Pieces(script.head, n)
  PROVE  ClientSeesTheStream
<1>1. Len(got) = n - script.head
  BY PiecesSeq
<1>2. script.head + Len(got) = n
  BY <1>1
<1> QED
  BY <1>2 DEF ClientSeesTheStream

LEMMA NothingAfterHead ==
  ASSUME script.head \in Nat, got = <<>>
  PROVE  ClientSeesTheStream
BY NoPieces, PiecesAfterHead

-------------------------------------------------------------------------------
(* The invariant                                                            *)

LEMMA ScriptType ==
  ASSUME script \in Scripts
  PROVE  script.head \in Nat /\ script.body \in Nat
BY BoundsAssumption DEF Scripts

LEMMA InitInv == Init => StreamInv
<1> SUFFICES ASSUME Init PROVE StreamInv
  OBVIOUS
<1>1. script.head \in Nat /\ script.body \in Nat
  BY ScriptType DEF Init
<1>2. TypeOK
  BY <1>1, BoundsAssumption DEF Init, TypeOK, Handling, Piping
<1>3. ToClientInv /\ ToUpstreamInv
  BY DEF Init, ToClientInv, ToUpstreamInv
<1> QED
  BY <1>2, <1>3 DEF Init, StreamInv, Counts

LEMMA StepType == StreamInv /\ [Next]_vars => TypeOK' /\ Counts'
<1> SUFFICES ASSUME StreamInv, [Next]_vars PROVE TypeOK' /\ Counts'
  OBVIOUS
<1> USE DEF StreamInv, TypeOK, Counts, Handling, Piping, upstream, client
<1>1. script.head \in Nat /\ script.body \in Nat /\ MaxClient \in Nat
  BY ScriptType, BoundsAssumption
<1>2. CASE Connect
  BY <1>1, <1>2 DEF Connect, Respond
<1>3. CASE WriteRequest
  BY <1>1, <1>3 DEF WriteRequest, Respond
<1>4. CASE ReadHead
  BY <1>1, <1>4 DEF ReadHead, HeadComplete, HeadIncomplete, Respond
<1>5. CASE ReadHeadFails
  BY <1>1, <1>5 DEF ReadHeadFails, Respond
<1>6. CASE Drain
  BY <1>1, <1>6 DEF Drain
<1>7. CASE DrainEnds
  BY <1>1, <1>7 DEF DrainEnds, Respond
<1>8. CASE Switched
  BY <1>1, <1>8 DEF Switched
<1>9. CASE FlushExtra
  BY <1>1, <1>9 DEF FlushExtra
<1>10. CASE CopyToClient
  BY <1>1, <1>10 DEF CopyToClient
<1>11. CASE CopyToUpstream
  BY <1>1, <1>11 DEF CopyToUpstream
<1>12. CASE PipeEnds
  BY <1>1, <1>12 DEF PipeEnds
<1>13. CASE Cancelled
  BY <1>1, <1>13 DEF Cancelled
<1>14. CASE UpstreamSends
  BY <1>1, <1>14 DEF UpstreamSends, proxy
<1>15. CASE UpstreamEnds
  BY <1>1, <1>15 DEF UpstreamEnds, proxy
<1>16. CASE ClientSends
  BY <1>1, <1>16 DEF ClientSends, proxy
<1>17. CASE ClientEnds
  BY <1>1, <1>17 DEF ClientEnds, proxy
<1>18. CASE UNCHANGED vars
  BY <1>1, <1>18 DEF vars
<1> QED
  BY <1>2, <1>3, <1>4, <1>5, <1>6, <1>7, <1>8, <1>9, <1>10, <1>11, <1>12,
     <1>13, <1>14, <1>15, <1>16, <1>17, <1>18 DEF Next, ProxyStep

\* Switched and FlushExtra hand on what is kept; the reads keep what they take.
LEMMA StepToClient == StreamInv /\ [Next]_vars => ToClientInv'
<1> SUFFICES ASSUME StreamInv, [Next]_vars PROVE ToClientInv'
  OBVIOUS
<1>1. /\ script.head \in Nat /\ taken \in Nat /\ sent \in Nat
      /\ pc \in Handling \cup Piping \cup {"done"} /\ ToClientInv
      /\ pc \in Handling => got = <<>>
  BY ScriptType DEF StreamInv, TypeOK, Counts
<1> USE DEF Handling, Piping, upstream, client
<1>2. CASE Connect
  BY <1>1, <1>2, NothingAfterHead DEF Connect, Respond, ToClientInv, ClientSeesTheStream
<1>3. CASE WriteRequest
  BY <1>1, <1>3, NothingAfterHead DEF WriteRequest, Respond, ToClientInv, ClientSeesTheStream
<1>4. CASE ReadHead
  <2>1. PICK n \in (taken + 1)..sent : taken' = n /\ (HeadComplete(n) \/ HeadIncomplete(n))
    BY <1>4 DEF ReadHead
  <2>2. UNCHANGED <<script, got>> /\ pc = "read" /\ got = <<>> /\ n \in Nat
    BY <1>1, <1>4, <2>1 DEF ReadHead
  <2>3. CASE HeadComplete(n)
    <3>1. extra' = Pieces(script.head, n) /\ script.head <= n
      BY <2>3 DEF HeadComplete, Parsed
    <3>2. pc' \in {"switch", "done", "drain"}
      BY <2>3 DEF HeadComplete, Respond
    <3> QED
      BY <1>1, NothingAfterHead, <2>1, <2>2, <3>1, <3>2 DEF ToClientInv, ClientSeesTheStream
  <2>4. CASE HeadIncomplete(n)
    <3>1. pc' \in {"read", "done"}
      BY <2>2, <2>4 DEF HeadIncomplete, Respond
    <3> QED
      BY <1>1, NothingAfterHead, <2>1, <2>2, <3>1 DEF ToClientInv, ClientSeesTheStream
  <2> QED
    BY <2>1, <2>3, <2>4
<1>5. CASE ReadHeadFails
  BY <1>1, <1>5, NothingAfterHead DEF ReadHeadFails, Respond, ToClientInv, ClientSeesTheStream
<1>6. CASE Drain
  <2>1. PICK n \in (taken + 1)..sent : taken' = n /\ extra' = extra \o Pieces(taken, n)
    BY <1>6 DEF Drain
  <2>2. /\ UNCHANGED <<script, got, pc>> /\ pc = "drain" /\ got = <<>>
        /\ n \in Nat /\ taken <= n /\ script.head <= taken
        /\ extra = Pieces(script.head, taken)
    BY <1>1, <1>6, <2>1 DEF Drain, ToClientInv
  <2>3. extra' = Pieces(script.head, n) /\ script.head <= n
    <3>1. script.head \in Nat /\ taken \in Nat /\ n \in Nat /\ script.head <= taken
      BY <1>1, <2>2
    <3>2. Pieces(script.head, taken) \o Pieces(taken, n) = Pieces(script.head, n)
      BY <2>2, <3>1, PiecesJoin
    <3>3. script.head <= n
      BY <2>2, <3>1
    <3> QED
      BY <2>1, <2>2, <3>2, <3>3
  <2> QED
    BY <2>1, <2>2, <2>3 DEF ToClientInv
<1>7. CASE DrainEnds
  <2>1. /\ script' = script /\ pc' = "done" /\ got' \in {got, extra} /\ got = <<>>
        /\ extra = Pieces(script.head, taken) /\ script.head <= taken
    BY <1>1, <1>7 DEF DrainEnds, Respond, ToClientInv
  <2>2. CASE got' = got
    BY <1>1, NothingAfterHead, <2>1, <2>2 DEF ToClientInv, ClientSeesTheStream
  <2>3. CASE got' = extra
    <3>1. script.head + Len(extra) = taken
      <4>1. Len(extra) = taken - script.head
        BY <1>1, <2>1, PiecesSeq
      <4> QED
        BY <1>1, <4>1
    <3> QED
      BY <2>1, <2>3, <3>1 DEF ToClientInv, ClientSeesTheStream
  <2> QED
    BY <2>1, <2>2, <2>3
<1>8. CASE Switched
  BY <1>1, <1>8, NothingAfterHead DEF Switched, ToClientInv, ClientSeesTheStream
<1>9. CASE FlushExtra
  <2>1. /\ UNCHANGED <<script, taken>> /\ pc = "flush" /\ got = <<>>
        /\ script.head <= taken /\ extra = Pieces(script.head, taken)
    BY <1>1, <1>9 DEF FlushExtra, ToClientInv
  <2>2. CASE pc' = "done" /\ UNCHANGED <<extra, got>>
    BY <1>1, NothingAfterHead, <2>1, <2>2 DEF ToClientInv, ClientSeesTheStream
  <2>3. CASE pc' = "pipe" /\ got' = got \o extra
    <3>1. got' = Pieces(script.head, taken)
      <4>1. extra \in Seq(Nat)
        BY <1>1, <2>1, PiecesSeq
      <4> QED
        BY <2>1, <2>3, <4>1, ConcatEmptySeq
    <3> QED
      BY <2>1, <2>3, <3>1 DEF ToClientInv
  <2> QED
    BY <1>9, <2>2, <2>3 DEF FlushExtra
<1>10. CASE CopyToClient
  <2>1. PICK n \in (taken + 1)..sent : taken' = n /\ got' = got \o Pieces(taken, n)
    BY <1>10 DEF CopyToClient
  <2>2. /\ UNCHANGED <<script, pc>> /\ pc = "pipe" /\ n \in Nat /\ taken <= n
        /\ script.head <= taken /\ got = Pieces(script.head, taken)
    BY <1>1, <1>10, <2>1 DEF CopyToClient, ToClientInv
  <2>3. got' = Pieces(script.head, n) /\ script.head <= n
    <3>1. script.head \in Nat /\ taken \in Nat /\ n \in Nat /\ script.head <= taken
      BY <1>1, <2>2
    <3>2. Pieces(script.head, taken) \o Pieces(taken, n) = Pieces(script.head, n)
      BY <2>2, <3>1, PiecesJoin
    <3>3. script.head <= n
      BY <2>2, <3>1
    <3> QED
      BY <2>1, <2>2, <3>2, <3>3
  <2> QED
    BY <2>1, <2>2, <2>3 DEF ToClientInv
<1>11. CASE CopyToUpstream
  BY <1>1, <1>11 DEF CopyToUpstream, ToClientInv
<1>12. CASE PipeEnds
  BY <1>1, <1>12, PiecesAfterHead DEF PipeEnds, ToClientInv, ClientSeesTheStream
<1>13. CASE Cancelled
  BY <1>1, <1>13, NothingAfterHead DEF Cancelled, ToClientInv, ClientSeesTheStream
<1>14. CASE UNCHANGED <<script, pc, taken, extra, got>>
  BY <1>1, <1>14 DEF ToClientInv, ClientSeesTheStream
<1> QED
  BY <1>2, <1>3, <1>4, <1>5, <1>6, <1>7, <1>8, <1>9, <1>10, <1>11, <1>12, <1>13, <1>14
  DEF Next, ProxyStep, UpstreamSends, UpstreamEnds, ClientSends, ClientEnds, proxy, vars

LEMMA StepToUpstream == StreamInv /\ [Next]_vars => ToUpstreamInv'
<1> SUFFICES ASSUME StreamInv, [Next]_vars PROVE ToUpstreamInv'
  OBVIOUS
<1>1. /\ heard \in Nat /\ said \in Nat /\ ToUpstreamInv
      /\ pc \in Handling \cup Piping \cup {"done"}
  BY DEF StreamInv, TypeOK, Counts
<1> USE DEF Handling, Piping, upstream, client
<1>2. CASE Connect
  BY <1>1, RequestAlone, <1>2
  DEF Connect, Respond, ToUpstreamInv, UpstreamSeesTheStream
<1>3. CASE WriteRequest
  <2>1. CASE pc' = "read" /\ upGot' = << 0 >>
    BY <1>1, <1>3, <2>1 DEF WriteRequest, ToUpstreamInv
  <2>2. CASE pc' = "done" /\ UNCHANGED upGot
    BY <1>1, RequestAlone, <1>3, <2>2
    DEF WriteRequest, ToUpstreamInv, UpstreamSeesTheStream
  <2> QED
    BY <1>3, <2>1, <2>2 DEF WriteRequest, Respond
<1>4. CASE ReadHead
  BY <1>1, RequestAlone, <1>4
  DEF ReadHead, HeadComplete, HeadIncomplete, Respond, ToUpstreamInv, UpstreamSeesTheStream
<1>5. CASE ReadHeadFails
  BY <1>1, RequestAlone, <1>5
  DEF ReadHeadFails, Respond, ToUpstreamInv, UpstreamSeesTheStream
<1>6. CASE Drain
  BY <1>1, RequestAlone, <1>6
  DEF Drain, ToUpstreamInv, UpstreamSeesTheStream
<1>7. CASE DrainEnds
  BY <1>1, RequestAlone, <1>7
  DEF DrainEnds, Respond, ToUpstreamInv, UpstreamSeesTheStream
<1>8. CASE Cancelled
  BY <1>1, RequestAlone, <1>8
  DEF Cancelled, ToUpstreamInv, UpstreamSeesTheStream
<1>9. CASE Switched
  BY <1>1, RequestAlone, <1>9
  DEF Switched, ToUpstreamInv, UpstreamSeesTheStream
<1>10. CASE FlushExtra
  <2>1. CASE pc' = "done"
    BY <1>1, RequestAlone, <1>10, <2>1
    DEF FlushExtra, ToUpstreamInv, UpstreamSeesTheStream
  <2>2. CASE pc' = "pipe"
    <3>1. heard' = 0 /\ upGot' = << 0 >>
      BY <1>1, <1>10 DEF FlushExtra, ToUpstreamInv
    <3> QED
      BY RequestFirst, <2>2, <3>1 DEF ToUpstreamInv
  <2> QED
    BY <1>10, <2>1, <2>2 DEF FlushExtra
<1>11. CASE CopyToClient
  BY <1>1, <1>11 DEF CopyToClient, ToUpstreamInv
<1>12. CASE CopyToUpstream
  <2>1. PICK n \in (heard + 1)..said : heard' = n /\ upGot' = upGot \o Pieces(heard, n)
    BY <1>12 DEF CopyToUpstream
  <2>2. /\ pc = "pipe" /\ pc' = pc /\ n \in Nat /\ heard <= n
        /\ upGot = << 0 >> \o Pieces(0, heard)
    BY <1>1, <1>12, <2>1 DEF CopyToUpstream, ToUpstreamInv
  <2>3. upGot' = << 0 >> \o Pieces(0, n)
    <3>1. /\ << 0 >> \in Seq(Nat) /\ Pieces(0, heard) \in Seq(Nat)
          /\ Pieces(heard, n) \in Seq(Nat)
      BY <1>1, <2>2, PiecesSeq
    <3>2. upGot' = << 0 >> \o (Pieces(0, heard) \o Pieces(heard, n))
      BY <2>1, <2>2, <3>1, ConcatAssociative
    <3>3. Pieces(0, heard) \o Pieces(heard, n) = Pieces(0, n)
      <4>1. 0 \in Nat /\ heard \in Nat /\ n \in Nat /\ 0 <= heard /\ heard <= n
        BY <1>1, <2>2
      <4> QED
        BY <4>1, PiecesJoin
    <3> QED
      BY <3>2, <3>3
  <2> QED
    BY <2>1, <2>2, <2>3 DEF ToUpstreamInv
<1>13. CASE PipeEnds
  BY <1>1, RequestAndPieces, <1>13 DEF PipeEnds, ToUpstreamInv, UpstreamSeesTheStream
<1>14. CASE UNCHANGED <<pc, heard, upGot>>
  BY <1>1, <1>14 DEF ToUpstreamInv, UpstreamSeesTheStream
<1> QED
  BY <1>2, <1>3, <1>4, <1>5, <1>6, <1>7, <1>8, <1>9, <1>10, <1>11, <1>12, <1>13, <1>14
  DEF Next, ProxyStep, UpstreamSends, UpstreamEnds, ClientSends, ClientEnds, proxy, vars

LEMMA StreamsFollow == StreamInv => ClientSeesTheStream /\ UpstreamSeesTheStream
<1> SUFFICES ASSUME StreamInv PROVE ClientSeesTheStream /\ UpstreamSeesTheStream
  OBVIOUS
<1>1. /\ script.head \in Nat /\ taken \in Nat /\ heard \in Nat
      /\ pc \in Handling \cup Piping \cup {"done"} /\ ToClientInv /\ ToUpstreamInv
      /\ pc \in Handling => got = <<>>
  BY ScriptType DEF StreamInv, TypeOK, Counts
<1>2. ClientSeesTheStream
  <2>1. CASE got = <<>>
    BY <1>1, <2>1, NothingAfterHead
  <2>2. CASE pc = "pipe"
    BY <1>1, <2>2, PiecesAfterHead DEF ToClientInv
  <2> QED
    BY <1>1, <2>1, <2>2 DEF ToClientInv, Handling, Piping
<1>3. UpstreamSeesTheStream
  <2>1. CASE upGot \in {<<>>, << 0 >>}
    BY <2>1, RequestAlone
  <2>2. CASE pc = "pipe"
    BY <1>1, <2>2, RequestAndPieces DEF ToUpstreamInv
  <2> QED
    BY <1>1, <2>1, <2>2 DEF ToUpstreamInv, Handling, Piping
<1> QED
  BY <1>2, <1>3

LEMMA StreamInvariant == Spec => []StreamInv
<1>1. StreamInv /\ [Next]_vars => StreamInv'
  BY StepType, StepToClient, StepToUpstream DEF StreamInv
<1> QED
  BY InitInv, <1>1, PTL DEF Spec

-------------------------------------------------------------------------------
\* What upgraded_io reads of upstream after the head, and the body of a
\* response that declines, reaches the client once and in order, for streams
\* of any length and any cut into reads.
THEOREM ClientStream == Spec => []ClientSeesTheStream
BY StreamInvariant, StreamsFollow, PTL

\* What the client writes reaches upstream behind the request, once and in
\* order, for streams of any length and any cut into reads.
THEOREM UpstreamStream == Spec => []UpstreamSeesTheStream
BY StreamInvariant, StreamsFollow, PTL

\* The types of handle_upgrade's state, and that its task copies only after
\* upstream's own 101 was passed on, for bounds of any size.
THEOREM TypeCorrect == Spec => []TypeOK
<1>1. StreamInv => TypeOK
  BY DEF StreamInv
<1> QED
  BY StreamInvariant, <1>1, PTL
===============================================================================
