-------------------------------- MODULE Upgrade --------------------------------
(***************************************************************************)
(* A WebSocket upgrade (crates/nsl/src/proxy/websocket.rs, handle_upgrade):*)
(* the proxy opens a connection upstream, writes a request of its own      *)
(* making, reads until it has the head of the response, and then either    *)
(* switches the client over and copies both ways, or hands the response on *)
(* with as much of its body as comes without a pause.                      *)
(*                                                                         *)
(* What upstream writes is a stream of pieces 1, 2, ...: the first `head`  *)
(* of them are the head of the response.  What goes the other way is 0,    *)
(* the request, and then the pieces 1, 2, ... of the client.  Reads return *)
(* any number of pieces that are there.                                    *)
(***************************************************************************)
EXTENDS Naturals, Sequences

CONSTANTS MaxHead,    \* bound: pieces of the head
          MaxBody,    \* bound: pieces after the head
          MaxClient,  \* bound: pieces the client sends
          MaxBuffer   \* the 65536 bytes a head may take

ASSUME BoundsAssumption ==
  /\ MaxHead \in Nat \ {0}
  /\ MaxBody \in Nat /\ MaxClient \in Nat /\ MaxBuffer \in Nat

VARIABLES
  script,    \* what upstream has to say
  pc,        \* where handle_upgrade and then its task are
  response,  \* what the client was answered
  sent, taken,    \* pieces upstream has written, pieces the proxy has read
  upEnd,     \* upstream's end of its connection: open, eof, reset
  extra,     \* resp_buf beyond the head, body_data
  got,       \* what the client has, without the head
  said, heard,    \* pieces the client has written, pieces the proxy has read
  clientEnd, \* the client's end: open, eof, gone
  upGot      \* what upstream has

upstream == <<script, sent, upEnd>>
client   == <<said, clientEnd>>
vars == <<script, pc, response, sent, taken, upEnd, extra, got, said, heard,
          clientEnd, upGot>>

\* `status`: 101 or another one; `parses`: there is a status line with a
\* number; `valid`: the headers can be built into a response; `endless`: behind
\* the pieces counted here a body that declines the upgrade (an event stream)
\* goes on for as long as upstream keeps the connection, never pausing.
Scripts ==
  {s \in [status: {"101", "other"}, parses: BOOLEAN, valid: BOOLEAN,
          endless: BOOLEAN, head: 1..MaxHead, body: 0..MaxBody] :
     s.endless => s.parses /\ s.status = "other"}

Handling == {"connect", "write", "read", "drain"}
Piping   == {"switch", "flush", "pipe"}

Init ==
  /\ script \in Scripts
  /\ pc = "connect" /\ response = "none"
  /\ sent = 0 /\ taken = 0 /\ upEnd = "open"
  /\ extra = <<>> /\ got = <<>>
  /\ said = 0 /\ heard = 0 /\ clientEnd = "open"
  /\ upGot = <<>>

\* The pieces after the first `from`, up to `to`.
Pieces(from, to) == [i \in 1..(to - from) |-> from + i]

Respond(status) == response' = status /\ pc' = "done"

-------------------------------------------------------------------------------
(* The handshake                                                            *)

Connect ==
  /\ pc = "connect"
  /\ \/ pc' = "write" /\ UNCHANGED response
     \/ Respond("502")
  /\ UNCHANGED <<upstream, taken, extra, got, client, heard, upGot>>

WriteRequest ==
  /\ pc = "write"
  /\ \/ /\ upEnd # "reset"
        /\ upGot' = <<0>>
        /\ pc' = "read"
        /\ UNCHANGED response
     \/ /\ upEnd = "reset"
        /\ Respond("502")
        /\ UNCHANGED upGot
  /\ UNCHANGED <<upstream, taken, extra, got, client, heard>>

\* parse_upstream_response on the first n pieces.
Parsed(n) == script.parses /\ n >= script.head

\* Variant with a fault: what came with the head is left in the buffer.
HeadCompleteLosingExtra(n) ==
  /\ Parsed(n)
  /\ extra' = <<>>
  /\ IF script.status = "101" /\ script.valid
       THEN response' = "101" /\ pc' = "switch"
     ELSE IF script.status = "101" THEN Respond("502")
     ELSE pc' = "drain" /\ UNCHANGED response

\* Variant with a fault: the status is not looked at.
HeadCompleteAnyStatus(n) ==
  /\ Parsed(n)
  /\ extra' = Pieces(script.head, n)
  /\ response' = "101" /\ pc' = "switch"

\* The head is there; what came with it is kept.
HeadComplete(n) ==
  /\ Parsed(n)
  /\ extra' = Pieces(script.head, n)
  /\ \/ /\ script.status = "101" /\ script.valid
        /\ response' = "101" /\ pc' = "switch"
     \/ /\ script.status = "101" /\ ~script.valid
        /\ Respond("502")
     \/ /\ script.status # "101"
        /\ pc' = "drain" /\ UNCHANGED response

\* Variant with a fault: a head of any size is waited for.
HeadIncompleteUnbounded(n) ==
  /\ ~Parsed(n)
  /\ UNCHANGED <<pc, response, extra>>

HeadIncomplete(n) ==
  /\ ~Parsed(n)
  /\ IF n > MaxBuffer THEN Respond("502") ELSE UNCHANGED <<pc, response>>
  /\ UNCHANGED extra

ReadHead ==
  /\ pc = "read"
  /\ \E n \in (taken + 1)..sent :
       /\ taken' = n
       /\ HeadComplete(n) \/ HeadIncomplete(n)
  /\ UNCHANGED <<upstream, got, client, heard, upGot>>

\* End of file before the head is complete, or an error.
ReadHeadFails ==
  /\ pc = "read"
  /\ upEnd = "reset" \/ (upEnd = "eof" /\ taken = sent)
  /\ Respond("502")
  /\ UNCHANGED <<upstream, taken, extra, got, client, heard, upGot>>

\* No upgrade: more of the body, ...
Drain ==
  /\ pc = "drain"
  /\ \E n \in (taken + 1)..sent :
       taken' = n /\ extra' = extra \o Pieces(taken, n)
  /\ UNCHANGED <<upstream, pc, response, got, client, heard, upGot>>

\* Variant with a fault: only end of file or an error end it.
DrainEndsAtTheEnd ==
  /\ pc = "drain"
  /\ (taken = sent /\ upEnd = "eof") \/ upEnd = "reset"
  /\ IF script.valid
       THEN Respond("other") /\ got' = extra
       ELSE Respond("502") /\ UNCHANGED got
  /\ extra' = <<>>
  /\ UNCHANGED <<upstream, taken, client, heard, upGot>>

\* ... until end of file, an error or 100 ms without anything new.  There is no
\* limit on the size or the time of it all.
DrainEnds ==
  /\ pc = "drain"
  /\ \/ taken = sent /\ (script.endless => upEnd # "open")
     \/ upEnd = "reset"
  /\ IF script.valid
       THEN Respond("other") /\ got' = extra
       ELSE Respond("502") /\ UNCHANGED got
  /\ extra' = <<>>
  /\ UNCHANGED <<upstream, taken, client, heard, upGot>>

\* A client that is gone takes the handler with it.
Cancelled ==
  /\ pc \in Handling
  /\ clientEnd = "gone"
  /\ pc' = "done"
  /\ UNCHANGED <<upstream, response, taken, extra, got, client, heard, upGot>>

-------------------------------------------------------------------------------
(* The spawned task                                                         *)

\* hyper::upgrade::on
Switched ==
  /\ pc = "switch"
  /\ pc' = IF clientEnd = "gone" THEN "done" ELSE "flush"
  /\ UNCHANGED <<upstream, response, taken, extra, got, client, heard, upGot>>

FlushExtra ==
  /\ pc = "flush"
  /\ IF clientEnd = "gone"
       THEN pc' = "done" /\ UNCHANGED <<extra, got>>
       ELSE pc' = "pipe" /\ got' = got \o extra /\ extra' = <<>>
  /\ UNCHANGED <<upstream, response, taken, client, heard, upGot>>

CopyToClient ==
  /\ pc = "pipe" /\ clientEnd # "gone" /\ upEnd # "reset"
  /\ \E n \in (taken + 1)..sent : taken' = n /\ got' = got \o Pieces(taken, n)
  /\ UNCHANGED <<upstream, pc, response, extra, client, heard, upGot>>

\* Variant with a fault: each read starts over.
CopyToUpstreamAgain ==
  /\ pc = "pipe" /\ clientEnd # "gone" /\ upEnd # "reset"
  /\ \E n \in (heard + 1)..said : heard' = n /\ upGot' = upGot \o Pieces(0, n)
  /\ UNCHANGED <<upstream, pc, response, taken, extra, got, client>>

CopyToUpstream ==
  /\ pc = "pipe" /\ clientEnd # "gone" /\ upEnd # "reset"
  /\ \E n \in (heard + 1)..said : heard' = n /\ upGot' = upGot \o Pieces(heard, n)
  /\ UNCHANGED <<upstream, pc, response, taken, extra, got, client>>

\* Variant with a fault: an end of one side does not count while the other is open.
PipeEndsOnReset ==
  /\ pc = "pipe"
  /\ clientEnd = "gone" /\ upEnd = "reset"
  /\ pc' = "done"
  /\ UNCHANGED <<upstream, response, taken, extra, got, client, heard, upGot>>

\* Both sides at their end with everything copied, or an error on one.
PipeEnds ==
  /\ pc = "pipe"
  /\ \/ clientEnd = "gone" \/ upEnd = "reset"
     \/ upEnd = "eof" /\ taken = sent /\ clientEnd = "eof" /\ heard = said
  /\ pc' = "done"
  /\ UNCHANGED <<upstream, response, taken, extra, got, client, heard, upGot>>

-------------------------------------------------------------------------------
(* The two ends                                                             *)

proxy == <<pc, response, taken, extra, got, heard, upGot>>

\* Upstream answers once it has the request.
UpstreamSends ==
  /\ upGot # <<>> /\ upEnd = "open"
  /\ sent < script.head + script.body
  /\ sent' = sent + 1
  /\ UNCHANGED <<script, upEnd, proxy, client>>

UpstreamEnds ==
  /\ upEnd = "open"
  /\ upEnd' \in {"eof", "reset"}
  /\ UNCHANGED <<script, sent, proxy, client>>

ClientSends ==
  /\ response = "101" /\ clientEnd = "open" /\ said < MaxClient
  /\ said' = said + 1
  /\ UNCHANGED <<upstream, clientEnd, proxy>>

ClientEnds ==
  /\ \/ clientEnd' = "gone" /\ clientEnd # "gone"
     \/ clientEnd' = "eof" /\ clientEnd = "open" /\ response = "101"
  /\ UNCHANGED <<upstream, said, proxy>>

ProxyStep ==
  \/ Connect \/ WriteRequest \/ ReadHead \/ ReadHeadFails \/ Drain \/ DrainEnds
  \/ Switched \/ FlushExtra \/ CopyToClient \/ CopyToUpstream \/ PipeEnds

Next ==
  \/ ProxyStep \/ Cancelled
  \/ UpstreamSends \/ UpstreamEnds \/ ClientSends \/ ClientEnds

Spec == Init /\ [][Next]_vars

\* The runtime schedules the handler and its task.  Upstream goes on with what
\* it has to say; the proxy sets it no time limit.
LiveSpec ==
  /\ Spec
  /\ WF_vars(ProxyStep) /\ WF_vars(CopyToClient) /\ WF_vars(CopyToUpstream)
  /\ WF_vars(UpstreamSends)

-------------------------------------------------------------------------------
TypeOK ==
  /\ script \in Scripts
  /\ pc \in Handling \cup Piping \cup {"done"}
  /\ response \in {"none", "101", "other", "502"}
  /\ taken <= sent /\ sent <= script.head + script.body
  /\ heard <= said /\ said <= MaxClient
  /\ upEnd \in {"open", "eof", "reset"} /\ clientEnd \in {"open", "eof", "gone"}
  /\ pc \in Piping => response = "101" /\ script.status = "101"
  /\ pc \in Handling => response = "none" /\ got = <<>>

\* However upstream's bytes are cut into reads, the client gets what follows
\* the head from its first byte on, once and in order; so does the body of a
\* response that declines the upgrade.
ClientSeesTheStream == got = Pieces(script.head, script.head + Len(got))

\* Upstream gets the request and then the client's bytes, once and in order.
UpstreamSeesTheStream == upGot # <<>> => upGot = <<0>> \o Pieces(0, Len(upGot) - 1)

\* Once switched over, everything either side sends reaches the other one, also
\* after one of them has ended its half, as long as no connection breaks.
EverythingArrives ==
  (<>(response = "101") /\ [](clientEnd # "gone" /\ upEnd # "reset")) =>
    <>[](Len(got) = sent - script.head /\ Len(upGot) = said + 1)

\* A client that stays gets an answer: when the connection ends; from an upstream
\* that does not speak HTTP, once that has said too much; and from one that ends
\* its head, unless it declines the upgrade with a body that goes on without a
\* pause of 100 ms, which is drained for as long as it lasts.  An upstream that
\* says little and keeps the connection open is waited for without a limit.
UpgradeIsAnswered ==
  /\ [](clientEnd # "gone")
  /\ \/ <>(upEnd # "open")
     \/ script.parses /\ ~script.endless
     \/ ~script.parses /\ script.head + script.body > MaxBuffer
  => <>(response # "none")

\* When both sides have ended, the task ends and both connections are closed.
NoPipeIsLeft == (upEnd # "open" /\ clientEnd # "open") ~> pc = "done"

-------------------------------------------------------------------------------
(* The inductive strengthening of the two streams                           *)

Counts == {sent, taken, said, heard} \subseteq Nat

\* What is on its way to the client: read, but not handed on.
ToClientInv ==
  /\ pc \in {"connect", "write", "read", "drain", "switch", "flush"} => got = <<>>
  /\ pc \in {"drain", "switch", "flush"} =>
       script.head <= taken /\ extra = Pieces(script.head, taken)
  /\ pc = "pipe" => script.head <= taken /\ got = Pieces(script.head, taken)
  /\ pc = "done" => ClientSeesTheStream

ToUpstreamInv ==
  /\ pc \in {"connect", "write"} => upGot = <<>>
  /\ pc \notin {"pipe", "done"} => heard = 0
  /\ pc \in {"read", "drain", "switch", "flush"} => upGot = <<0>>
  /\ pc = "pipe" => upGot = <<0>> \o Pieces(0, heard)
  /\ pc = "done" => UpstreamSeesTheStream

StreamInv == TypeOK /\ Counts /\ ToClientInv /\ ToUpstreamInv
===============================================================================
