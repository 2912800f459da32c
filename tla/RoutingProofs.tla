---------------------------- MODULE RoutingProofs ----------------------------
(***************************************************************************)
(* For every max_hops, every table of routes and chains of any length:     *)
(* what the hop count does (nothing is taken for a loop that is not one, a *)
(* loop is cut in time with max_hops = 1 and never with more), what        *)
(* becomes of a path on its way, that a route is reached under its own     *)
(* address, and what the configured domains have in common.  At the end    *)
(* the poller that keeps the routes, for every set of them and any number  *)
(* of clock ticks.                                                         *)
(***************************************************************************)
EXTENDS RequestPath, RoutePoller, SequenceTheorems, WellFoundedInduction, TLAPS

Chain(s) == s \in Seq({s[i] : i \in 1..Len(s)})

\* Sequences and calls as the actions change them.
Put(s, n, e)        == [s EXCEPT ![n] = e]
Answered(c, status) == [c EXCEPT !.stage = "answered", !.status = status]
Routed(c, route)    == [c EXCEPT !.stage = "routed", !.route = route]
SentOn(c)           == [c EXCEPT !.stage = "sent"]

-------------------------------------------------------------------------------
(* Sequences of calls                                                       *)

LEMMA ChainOf == ASSUME NEW S, NEW s \in Seq(S) PROVE Chain(s) /\ Len(s) \in Nat
<1>1. Len(s) \in Nat /\ s \in [1..Len(s) -> S]
  BY LenProperties
<1>2. s \in [1..Len(s) -> {s[i] : i \in 1..Len(s)}]
  BY <1>1
<1> QED
  BY <1>1, <1>2, SeqDef DEF Chain

LEMMA ChainReplaced ==
  ASSUME NEW s, Chain(s), NEW n \in 1..Len(s), NEW e
  PROVE  /\ Chain(Put(s, n, e)) /\ Len(Put(s, n, e)) = Len(s)
         /\ \A i \in 1..Len(s) : Put(s, n, e)[i] = IF i = n THEN e ELSE s[i]
<1> DEFINE S == {s[i] : i \in 1..Len(s)} \cup {e}
<1>1. s \in Seq(S)
  <2>1. Len(s) \in Nat /\ s \in [1..Len(s) -> {s[i] : i \in 1..Len(s)}]
    BY LenProperties DEF Chain
  <2>2. s \in [1..Len(s) -> S]
    BY <2>1
  <2> QED
    BY <2>1, <2>2, SeqDef
<1>2. e \in S
  OBVIOUS
<1> HIDE DEF S
<1>3. /\ [s EXCEPT ![n] = e] \in Seq(S)
      /\ Len([s EXCEPT ![n] = e]) = Len(s)
      /\ \A i \in 1..Len(s) : [s EXCEPT ![n] = e][i] = IF i = n THEN e ELSE s[i]
  BY <1>1, <1>2, ExceptSeq
<1> QED
  BY <1>3, ChainOf DEF Put

LEMMA ChainAppended ==
  ASSUME NEW s, Chain(s), NEW e
  PROVE  /\ Chain(Append(s, e))
         /\ Len(s) \in Nat /\ Len(Append(s, e)) = Len(s) + 1
         /\ \A i \in 1..Len(s) : Append(s, e)[i] = s[i]
         /\ Append(s, e)[Len(s) + 1] = e
<1> DEFINE S == {s[i] : i \in 1..Len(s)} \cup {e}
<1>1. s \in Seq(S) /\ Len(s) \in Nat
  <2>1. Len(s) \in Nat /\ s \in [1..Len(s) -> {s[i] : i \in 1..Len(s)}]
    BY LenProperties DEF Chain
  <2>2. s \in [1..Len(s) -> S]
    BY <2>1
  <2> QED
    BY <2>1, <2>2, SeqDef
<1>2. e \in S
  OBVIOUS
<1> HIDE DEF S
<1>3. /\ Append(s, e) \in Seq(S)
      /\ Len(Append(s, e)) = Len(s) + 1
      /\ \A i \in 1..Len(s) : Append(s, e)[i] = s[i]
      /\ Append(s, e)[Len(s) + 1] = e
  BY <1>1, <1>2, AppendProperties
<1> QED
  BY <1>1, <1>3, ChainOf

LEMMA ChainShortened ==
  ASSUME NEW s, Chain(s), Len(s) > 1
  PROVE  /\ Chain(SubSeq(s, 1, Len(s) - 1))
         /\ Len(SubSeq(s, 1, Len(s) - 1)) = Len(s) - 1
         /\ \A i \in 1..(Len(s) - 1) : SubSeq(s, 1, Len(s) - 1)[i] = s[i]
<1> DEFINE S == {s[i] : i \in 1..Len(s)}
           t == SubSeq(s, 1, Len(s) - 1)
<1>1. s \in Seq(S) /\ Len(s) \in Nat
  BY LenProperties DEF Chain
<1>2. \A i \in 1..(Len(s) - 1) : s[i] \in S
  BY <1>1
<1>3. /\ t \in Seq(S)
      /\ Len(t) = IF 1 <= Len(s) - 1 THEN (Len(s) - 1) - 1 + 1 ELSE 0
      /\ \A i \in 1..((Len(s) - 1) - 1 + 1) : t[i] = s[1 + i - 1]
  <2>1. 1 \in Int /\ Len(s) - 1 \in Int
    BY <1>1
  <2> HIDE DEF S
  <2> QED
    BY <1>2, <2>1, SubSeqProperties
<1>4. /\ Len(t) = Len(s) - 1
      /\ \A i \in 1..(Len(s) - 1) : t[i] = s[i]
  BY <1>1, <1>3
<1> QED
  BY <1>3, <1>4, ChainOf

-------------------------------------------------------------------------------
(* One call                                                                 *)

LEMMA CallAnswered ==
  ASSUME NEW c, WellFormed(c), NEW status
  PROVE  LET e == Answered(c, status)
         IN  /\ WellFormed(e) /\ e.hops = c.hops /\ e.stage = "answered" /\ e.status = status
             /\ e.path = c.path /\ e.route = c.route
<1> DEFINE d == [c EXCEPT !.stage = "answered"]
           e == [d EXCEPT !.status = status]
<1>1. /\ WellFormed(d) /\ d.hops = c.hops /\ d.stage = "answered"
      /\ d.path = c.path /\ d.route = c.route
  BY DEF WellFormed
<1> HIDE DEF d
<1>2. /\ WellFormed(e) /\ e.hops = d.hops /\ e.stage = d.stage /\ e.status = status
      /\ e.path = d.path /\ e.route = d.route
  BY <1>1 DEF WellFormed
<1> QED
  BY <1>1, <1>2 DEF d, Answered

LEMMA CallRouted ==
  ASSUME NEW c, WellFormed(c), NEW route
  PROVE  LET e == Routed(c, route)
         IN  /\ WellFormed(e) /\ e.hops = c.hops /\ e.stage = "routed" /\ e.status = c.status
             /\ e.path = c.path /\ e.route = route
<1> DEFINE d == [c EXCEPT !.stage = "routed"]
           e == [d EXCEPT !.route = route]
<1>1. /\ WellFormed(d) /\ d.hops = c.hops /\ d.stage = "routed" /\ d.status = c.status
      /\ d.path = c.path
  BY DEF WellFormed
<1> HIDE DEF d
<1>2. /\ WellFormed(e) /\ e.hops = d.hops /\ e.stage = d.stage /\ e.status = d.status
      /\ e.path = d.path /\ e.route = route
  BY <1>1 DEF WellFormed
<1> QED
  BY <1>1, <1>2 DEF d, Routed

LEMMA CallSent ==
  ASSUME NEW c, WellFormed(c)
  PROVE  LET e == SentOn(c)
         IN  /\ WellFormed(e) /\ e.hops = c.hops /\ e.stage = "sent" /\ e.status = c.status
             /\ e.path = c.path /\ e.route = c.route
BY DEF WellFormed, SentOn

LEMMA NewCall ==
  ASSUME NEW host, NEW path, NEW hops, NEW upgrade
  PROVE  LET e == Call(host, path, hops, upgrade)
         IN  /\ WellFormed(e) /\ e.hops = hops /\ e.stage = "head" /\ e.status = "none"
             /\ e.path = path
BY DEF WellFormed, Call

LEMMA ChainIsFunction ==
  ASSUME NEW s, Chain(s)
  PROVE  s \in [1..Len(s) -> {s[i] : i \in 1..Len(s)}]
BY LenProperties DEF Chain

-------------------------------------------------------------------------------
(* What happens to the chain                                                *)

LEMMA LastIsCall ==
  ASSUME HopInv, calls # <<>>
  PROVE  /\ Chain(calls) /\ Depth \in 1..Len(calls) /\ Depth = Len(calls)
         /\ WellFormed(Current) /\ Current.hops \in Seq(Nat)
         /\ Current.stage = "head" => Current.status = "none"
         /\ Current.stage \in {"routed", "sent"} => ExtractHops(Current.hops) < MaxHops
<1>1. calls \in Seq({calls[i] : i \in 1..Len(calls)})
  BY DEF HopInv, ChainInv
<1>2. Len(calls) \in Nat /\ Len(calls) # 0
  BY <1>1, LenProperties, EmptySeq
<1>3. Len(calls) \in 1..Len(calls)
  BY <1>2
<1> QED
  BY <1>1, <1>3 DEF HopInv, ChainInv, StageInv, Chain, Depth, Current

LEMMA LastCallChanges ==
  ASSUME HopInv, calls # <<>>, NEW e, WellFormed(e), e.hops = Current.hops,
         e.stage = "head" => e.status = "none",
         e.status = "508" => MaxHops <= 1,
         e.stage \in {"routed", "sent"} => ExtractHops(Current.hops) < MaxHops,
         calls' = Put(calls, Depth, e)
  PROVE  HopInv'
<1>1. /\ Chain(calls) /\ Depth \in 1..Len(calls) /\ Depth = Len(calls)
      /\ Current.hops \in Seq(Nat)
  BY LastIsCall
<1>2. /\ Chain(calls') /\ Len(calls') = Len(calls)
      /\ \A i \in 1..Len(calls) : calls'[i] = IF i = Len(calls) THEN e ELSE calls[i]
  <2>1. Len(calls) \in 1..Len(calls) /\ calls' = Put(calls, Len(calls), e)
    BY <1>1
  <2> QED
    BY <1>1, <2>1, ChainReplaced
<1>3. ChainInv'
  BY <1>1, <1>2 DEF HopInv, ChainInv, Chain
<1>4. HopsInv'
  BY <1>1, <1>2 DEF HopInv, HopsInv, Current
<1>5. StageInv'
  <2>1. ASSUME NEW i \in 1..Len(calls), i # Len(calls)
        PROVE  /\ calls'[i] = calls[i] /\ calls[i].stage = "sent"
               /\ ExtractHops(calls[i].hops) < MaxHops
               /\ calls[i].status = "508" => MaxHops <= 1
    <3>1. i < Depth
      BY <1>1, <2>1
    <3> QED
      BY <1>2, <2>1, <3>1 DEF HopInv, StageInv
  <2>2. calls'[Len(calls)] = e
    BY <1>1, <1>2
  <2>3. Depth' = Len(calls)
    BY <1>2 DEF Depth
  <2>4. \A i \in 1..Len(calls) :
          /\ i < Len(calls) => calls'[i].stage = "sent"
          /\ calls'[i].stage = "head" => calls'[i].status = "none"
          /\ calls'[i].status = "508" => MaxHops <= 1
          /\ calls'[i].stage \in {"routed", "sent"} => ExtractHops(calls'[i].hops) < MaxHops
    BY <1>1, <2>1, <2>2
  <2> QED
    BY <1>2, <2>3, <2>4 DEF StageInv
<1> QED
  BY <1>3, <1>4, <1>5 DEF HopInv

\* The chain with every call sent, and one more.
LEMMA CallIsAdded ==
  ASSUME HopInv, calls # <<>>, NEW s, Chain(s), Len(s) = Len(calls),
         \A i \in 1..Len(s) :
           /\ WellFormed(s[i]) /\ s[i].hops = calls[i].hops /\ s[i].stage = "sent"
           /\ s[i].status = calls[i].status,
         Current.stage \in {"routed", "sent"},
         NEW e, WellFormed(e), e.hops = Append(Current.hops, ExtractHops(Current.hops) + 1),
         e.stage = "head", e.status = "none",
         calls' = Append(s, e)
  PROVE  HopInv'
<1>1. /\ Chain(calls) /\ Depth \in 1..Len(calls) /\ Depth = Len(calls)
      /\ Current.hops \in Seq(Nat)
      /\ ExtractHops(Current.hops) < MaxHops
  BY LastIsCall
<1>2. /\ Chain(calls') /\ Len(calls) \in Nat /\ Len(calls') = Len(calls) + 1
      /\ \A i \in 1..Len(calls) : calls'[i] = s[i]
      /\ calls'[Len(calls) + 1] = e
  BY <1>1, ChainAppended
<1>3. ExtractHops(Current.hops) = IF Depth = 1 THEN 0 ELSE 1
  BY <1>1 DEF HopInv, HopsInv, ExtractHops, Current
<1>4. e.hops \in Seq(Nat) /\ e.hops # <<>> /\ e.hops[1] = 1
  <2>1. ExtractHops(Current.hops) + 1 \in Nat
    BY <1>3
  <2>2. /\ e.hops \in Seq(Nat) /\ e.hops # <<>>
        /\ \A i \in 1..Len(Current.hops) : e.hops[i] = Current.hops[i]
        /\ e.hops[Len(Current.hops) + 1] = ExtractHops(Current.hops) + 1
    <3>1. PICK h, n : h = Current.hops /\ n = ExtractHops(Current.hops) + 1
      OBVIOUS
    <3>2. h \in Seq(Nat) /\ n \in Nat
      BY <1>1, <2>1, <3>1
    <3>3. /\ Append(h, n) \in Seq(Nat) /\ Append(h, n) # <<>>
          /\ \A i \in 1..Len(h) : Append(h, n)[i] = h[i]
          /\ Append(h, n)[Len(h) + 1] = n
      BY <3>2, AppendProperties
    <3>4. e.hops = Append(h, n)
      BY <3>1
    <3> QED
      BY <3>1, <3>3, <3>4
  <2>3. CASE Depth = 1
    <3>1. Len(Current.hops) = 0
      BY <1>1, <2>3 DEF HopInv, HopsInv, Current
    <3> QED
      BY <1>3, <2>2, <2>3, <3>1
  <2>4. CASE Depth # 1
    <3>1. Current.hops # <<>> /\ Current.hops[1] = 1
      BY <1>1, <2>4 DEF HopInv, HopsInv, Current
    <3>2. 1 \in 1..Len(Current.hops)
      BY <1>1, <3>1, EmptySeq, LenProperties
    <3> QED
      BY <2>2, <3>1, <3>2
  <2> QED
    BY <2>3, <2>4
<1>5. ASSUME NEW i \in 1..Len(calls') PROVE i \in 1..Len(calls) \/ i = Len(calls')
  BY <1>2
<1>6. ChainInv' /\ HopsInv'
  <2>1. ASSUME NEW i \in 1..Len(calls'), i \in 1..Len(calls)
        PROVE  /\ calls'[i].hops = calls[i].hops /\ WellFormed(calls'[i])
               /\ calls[i].hops \in Seq(Nat)
               /\ IF i = 1 THEN calls[i].hops = <<>>
                  ELSE calls[i].hops # <<>> /\ calls[i].hops[1] = 1
    BY <1>2, <2>1 DEF HopInv, ChainInv, HopsInv
  <2>2. calls'[Len(calls')] = e /\ Len(calls') # 1
    BY <1>1, <1>2
  <2>3. ChainInv'
    BY <1>2, <1>4, <1>5, <2>1, <2>2 DEF ChainInv, Chain
  <2>4. HopsInv'
    BY ZenonT(30), <1>2, <1>4, <1>5, <2>1, <2>2 DEF HopsInv
  <2> QED
    BY <2>3, <2>4
<1>7. StageInv'
  <2>1. \A i \in 1..Len(calls) :
          ExtractHops(calls[i].hops) < MaxHops /\ (calls[i].status = "508" => MaxHops <= 1)
    BY <1>1 DEF HopInv, StageInv, Depth, Current
  <2> QED
    BY <1>1, <1>2, <2>1 DEF StageInv, Depth
<1> QED
  BY <1>6, <1>7 DEF HopInv

-------------------------------------------------------------------------------
(* The actions                                                              *)

LEMMA AnswerStep ==
  ASSUME HopInv, calls # <<>>, NEW status, Answer(status), status = "508" => MaxHops <= 1
  PROVE  /\ HopInv' /\ Len(calls') = Len(calls)
         /\ calls'[Depth].stage = "answered" /\ calls'[Depth].status = status
<1>1. /\ Chain(calls) /\ Depth \in 1..Len(calls) /\ WellFormed(Current)
      /\ Current = calls[Depth]
  BY LastIsCall DEF Current
<1>2. calls' = Put(calls, Depth, Answered(Current, status))
  BY <1>1, ChainIsFunction DEF Answer, Put, Answered
<1>3. PICK e : e = Answered(Current, status)
  OBVIOUS
<1>4. WellFormed(e) /\ e.hops = Current.hops /\ e.stage = "answered" /\ e.status = status
  BY <1>1, <1>3, CallAnswered
<1>5. HopInv'
  BY <1>2, <1>3, <1>4, LastCallChanges
<1>6. Len(calls') = Len(calls) /\ calls'[Depth] = e
  BY <1>1, <1>2, <1>3, ChainReplaced
<1> QED
  BY <1>4, <1>5, <1>6

LEMMA LoopDetectedStep == ASSUME HopInv, LoopDetected PROVE HopInv'
<1>1. calls # <<>> /\ ExtractHops(Current.hops) >= MaxHops /\ Answer("508")
  BY DEF LoopDetected, At
<1>2. ExtractHops(Current.hops) = IF Depth = 1 THEN 0 ELSE 1
  BY <1>1, LastIsCall DEF HopInv, HopsInv, ExtractHops, Current
<1>3. MaxHops <= 1
  BY <1>1, <1>2, MaxHopsAssumption
<1> QED
  BY <1>1, <1>3, AnswerStep

LEMMA LookUpStep ==
  ASSUME HopInv, LookUp
  PROVE  HopInv' /\ Len(calls') = Len(calls) /\ calls'[Depth].status # "508"
<1>1. calls # <<>> /\ Current.stage = "head" /\ ExtractHops(Current.hops) < MaxHops
  BY DEF LookUp, At
<1>2. CASE Answer("404")
  BY <1>1, <1>2, AnswerStep
<1>3. ASSUME NEW route, calls' = [calls EXCEPT ![Depth].stage = "routed", ![Depth].route = route]
      PROVE  HopInv' /\ Len(calls') = Len(calls) /\ calls'[Depth].status # "508"
  <2>1. /\ Chain(calls) /\ Depth \in 1..Len(calls) /\ WellFormed(Current)
        /\ Current = calls[Depth] /\ Current.status = "none"
    BY <1>1, LastIsCall DEF Current
  <2>2. calls' = Put(calls, Depth, Routed(Current, route))
    BY <1>3, <2>1, ChainIsFunction DEF Put, Routed
  <2>3. PICK e : e = Routed(Current, route)
    OBVIOUS
  <2>4. WellFormed(e) /\ e.hops = Current.hops /\ e.stage = "routed" /\ e.status = "none"
    BY <2>1, <2>3, CallRouted
  <2>5. HopInv'
    BY <1>1, <2>2, <2>3, <2>4, LastCallChanges
  <2>6. Len(calls') = Len(calls) /\ calls'[Depth] = e
    BY <2>1, <2>2, <2>3, ChainReplaced
  <2> QED
    BY <2>4, <2>5, <2>6
<1> QED
  BY <1>2, <1>3 DEF LookUp

LEMMA ForwardedCall ==
  /\ WellFormed(Forwarded) /\ Forwarded.stage = "head" /\ Forwarded.status = "none"
  /\ Forwarded.hops = Append(Current.hops, ExtractHops(Current.hops) + 1)
  /\ Forwarded.path = ForwardedPath(Current.path, Current.route)
<1> DEFINE hops == Append(Current.hops, ExtractHops(Current.hops) + 1)
           path == ForwardedPath(Current.path, Current.route)
<1>1. PICK host, upgrade : Forwarded = Call(host, path, hops, upgrade)
  BY DEF Forwarded
<1> HIDE DEF hops, path
<1>2. /\ WellFormed(Forwarded) /\ Forwarded.hops = hops /\ Forwarded.path = path
      /\ Forwarded.stage = "head" /\ Forwarded.status = "none"
  BY <1>1, NewCall
<1> QED
  BY <1>2 DEF hops, path

LEMMA ConnectStep == ASSUME HopInv, Connect PROVE HopInv'
<1>1. calls # <<>> /\ Current.stage = "routed"
  BY DEF Connect, At
<1>2. /\ Chain(calls) /\ Depth \in 1..Len(calls) /\ Depth = Len(calls)
      /\ WellFormed(Current) /\ Current = calls[Depth]
      /\ ExtractHops(Current.hops) < MaxHops
  BY <1>1, LastIsCall DEF Current
<1>3. PICK e : e = SentOn(Current)
  OBVIOUS
<1>4. WellFormed(e) /\ e.hops = Current.hops /\ e.stage = "sent" /\ e.status = Current.status
  BY <1>2, <1>3, CallSent
<1>5. Sent = Put(calls, Depth, e)
  BY <1>2, <1>3, ChainIsFunction DEF Sent, Put, SentOn
<1>6. CASE calls' = Sent
  <2>1. Current.status = "508" => MaxHops <= 1
    BY <1>2 DEF HopInv, StageInv
  <2> QED
    BY <1>1, <1>2, <1>4, <1>5, <1>6, <2>1, LastCallChanges
<1>7. CASE Answer("502")
  BY <1>1, <1>7, AnswerStep
<1>8. CASE calls' = Append(Sent, Forwarded)
  <2>1. /\ Chain(Sent) /\ Len(Sent) = Len(calls)
        /\ \A i \in 1..Len(calls) : Sent[i] = IF i = Depth THEN e ELSE calls[i]
    BY <1>2, <1>5, ChainReplaced
  <2>2. \A i \in 1..Len(Sent) :
          /\ WellFormed(Sent[i]) /\ Sent[i].hops = calls[i].hops /\ Sent[i].stage = "sent"
          /\ Sent[i].status = calls[i].status
    <3>1. ASSUME NEW i \in 1..Len(calls), i # Depth
          PROVE  WellFormed(calls[i]) /\ calls[i].stage = "sent"
      <4>1. i < Depth
        BY <1>2, <3>1
      <4> QED
        BY <3>1, <4>1 DEF HopInv, ChainInv, StageInv
    <3> QED
      BY <1>2, <1>4, <2>1, <3>1
  <2> QED
    BY <1>1, <1>8, <2>1, <2>2, ForwardedCall, CallIsAdded
<1> QED
  BY <1>6, <1>7, <1>8 DEF Connect

LEMMA AppSendsOnStep == ASSUME HopInv, AppSendsOn PROVE HopInv'
<1>1. calls # <<>> /\ Current.stage = "sent"
  BY DEF AppSendsOn, At
<1>2. Chain(calls) /\ Depth \in 1..Len(calls) /\ Depth = Len(calls) /\ Current = calls[Depth]
  BY <1>1, LastIsCall DEF Current
<1>3. PICK host : calls' = Append(calls, [Forwarded EXCEPT !.host = host])
  BY DEF AppSendsOn
<1>4. PICK e : e = [Forwarded EXCEPT !.host = host]
  OBVIOUS
<1>5. /\ WellFormed(e) /\ e.stage = "head" /\ e.status = "none"
      /\ e.hops = Append(Current.hops, ExtractHops(Current.hops) + 1)
  BY <1>4, ForwardedCall DEF WellFormed
<1>6. \A i \in 1..Len(calls) : WellFormed(calls[i]) /\ calls[i].stage = "sent"
  <2>1. ASSUME NEW i \in 1..Len(calls) PROVE i < Depth \/ i = Depth
    BY <1>2
  <2> QED
    BY <1>1, <1>2, <2>1 DEF HopInv, ChainInv, StageInv
<1> QED
  BY <1>1, <1>2, <1>3, <1>4, <1>5, <1>6, CallIsAdded

\* The chain less its last call.
LEMMA PassBackStep == ASSUME HopInv, PassBack PROVE HopInv'
<1>1. calls # <<>>
  BY DEF PassBack, At
<1>2. Chain(calls) /\ Depth \in 1..Len(calls) /\ Depth = Len(calls) /\ Len(calls) \in Nat
  BY <1>1, LastIsCall, LenProperties DEF Chain
<1>3. CASE Depth = 1
  <2>1. calls' = <<>>
    BY <1>3 DEF PassBack
  <2>2. calls' \in Seq({calls'[i] : i \in 1..Len(calls')}) /\ Len(calls') = 0
    BY <2>1, EmptySeq
  <2>3. 1..Len(calls') = {}
    BY <2>2
  <2> QED
    BY <2>2, <2>3 DEF HopInv, ChainInv, HopsInv, StageInv
<1>4. CASE Depth # 1
  <2> DEFINE s == SubSeq(calls, 1, Len(calls) - 1)
             n == Len(calls) - 1
  <2>1. /\ Chain(s) /\ Len(s) = n /\ n \in 1..Len(s)
        /\ \A i \in 1..n : s[i] = calls[i]
    BY <1>2, <1>4, ChainShortened
  <2>2. PICK e : e = Answered(s[n], Current.status)
    OBVIOUS
  <2>3. \A i \in 1..n : i \in 1..Len(calls)
    BY <1>2
  <2>4. /\ WellFormed(e) /\ e.hops = calls[n].hops /\ e.stage = "answered"
        /\ e.status = "508" => MaxHops <= 1
    <3>1. /\ WellFormed(e) /\ e.hops = calls[n].hops /\ e.stage = "answered"
          /\ e.status = Current.status
      BY <2>1, <2>2, <2>3, CallAnswered DEF HopInv, ChainInv
    <3>2. Current.status = "508" => MaxHops <= 1
      BY <1>2 DEF HopInv, StageInv, Current
    <3> QED
      BY <3>1, <3>2
  <2>5. calls' = Put(s, n, e)
    <3>1. calls' = [s EXCEPT ![n].stage = "answered", ![n].status = Current.status]
      BY <1>2, <1>4 DEF PassBack
    <3> HIDE DEF s, n
    <3> QED
      BY <2>1, <2>2, <3>1, ChainIsFunction DEF Put, Answered
  <2>6. /\ Chain(calls') /\ Len(calls') = n
        /\ \A i \in 1..n : calls'[i] = IF i = n THEN e ELSE calls[i]
    <3> HIDE DEF s, n
    <3>1. /\ Chain(calls') /\ Len(calls') = Len(s)
          /\ \A i \in 1..Len(s) : calls'[i] = IF i = n THEN e ELSE s[i]
      BY <2>1, <2>5, ChainReplaced
    <3> QED
      BY <2>1, <3>1
  <2>7. ChainInv'
    BY <2>3, <2>4, <2>6 DEF HopInv, ChainInv, Chain
  <2>8. HopsInv'
    BY <2>3, <2>4, <2>6 DEF HopInv, HopsInv
  <2>9. StageInv'
    <3>1. ASSUME NEW i \in 1..n, i # n
          PROVE  /\ calls[i].stage = "sent" /\ ExtractHops(calls[i].hops) < MaxHops
                 /\ calls[i].status = "508" => MaxHops <= 1
      <4>1. i < Depth /\ i \in 1..Len(calls)
        BY <1>2, <2>3, <3>1
      <4> QED
        BY <4>1 DEF HopInv, StageInv
    <3>2. Len(calls') = n /\ Depth' = n
      BY <2>6 DEF Depth
    <3>3. ASSUME NEW i \in 1..n
          PROVE  /\ i < n => calls'[i].stage = "sent"
                 /\ calls'[i].stage = "head" => calls'[i].status = "none"
                 /\ calls'[i].status = "508" => MaxHops <= 1
                 /\ calls'[i].stage \in {"routed", "sent"} => ExtractHops(calls'[i].hops) < MaxHops
      <4> HIDE DEF n
      <4>1. CASE i = n
        BY <2>4, <2>6, <4>1
      <4>2. CASE i # n
        BY <2>6, <3>1, <4>2
      <4> QED
        BY <4>1, <4>2
    <3> HIDE DEF n
    <3> QED
      BY <3>2, <3>3 DEF StageInv
  <2> QED
    BY <2>7, <2>8, <2>9 DEF HopInv
<1> QED
  BY <1>3, <1>4

LEMMA HopInitially == Init => HopInv
<1> SUFFICES ASSUME Init PROVE HopInv
  OBVIOUS
<1>1. calls \in Seq({calls[i] : i \in 1..Len(calls)}) /\ Len(calls) = 0
  BY EmptySeq DEF Init
<1>2. 1..Len(calls) = {}
  BY <1>1
<1> QED
  BY <1>1, <1>2 DEF HopInv, ChainInv, HopsInv, StageInv

LEMMA ClientRequestStep == ASSUME HopInv, ClientRequest PROVE HopInv'
<1>1. PICK q \in Requests : calls' = <<Call(q.host, q.path, <<>>, q.upgrade)>>
  BY DEF ClientRequest
<1>2. PICK e : e = Call(q.host, q.path, <<>>, q.upgrade)
  OBVIOUS
<1>3. WellFormed(e) /\ e.hops = <<>> /\ e.stage = "head" /\ e.status = "none"
  BY <1>2, NewCall
<1>4. calls' = <<e>> /\ <<e>> \in Seq({e}) /\ Len(<<e>>) = 1 /\ <<e>>[1] = e
  BY <1>1, <1>2
<1>5. Chain(calls') /\ Len(calls') = 1 /\ calls'[1] = e
  BY <1>4, ChainOf
<1>6. \A i \in 1..Len(calls') : i = 1
  BY <1>5
<1>7. <<>> \in Seq(Nat)
  BY EmptySeq
<1>8. ChainInv' /\ HopsInv'
  BY <1>3, <1>5, <1>6, <1>7 DEF ChainInv, HopsInv, Chain
<1>9. StageInv'
  BY <1>3, <1>5, <1>6 DEF StageInv, Depth
<1> QED
  BY <1>8, <1>9 DEF HopInv

LEMMA HopStep == HopInv /\ [Next]_vars => HopInv'
<1> SUFFICES ASSUME HopInv, [Next]_vars PROVE HopInv'
  OBVIOUS
<1>1. CASE ClientRequest
  BY <1>1, ClientRequestStep
<1>2. CASE MissingHost
  BY <1>2, AnswerStep DEF MissingHost, At
<1>3. CASE LoopDetected
  BY <1>3, LoopDetectedStep
<1>4. CASE LookUp
  BY <1>4, LookUpStep
<1>5. CASE Connect
  BY <1>5, ConnectStep
<1>6. CASE PassBack
  BY <1>6, PassBackStep
<1>7. CASE AppAnswers
  BY <1>7, AnswerStep DEF AppAnswers, At
<1>8. CASE AppFails
  BY <1>8, AnswerStep DEF AppFails, At
<1>9. CASE AppSendsOn
  BY <1>9, AppSendsOnStep
<1>10. CASE UNCHANGED calls
  BY <1>10 DEF HopInv, ChainInv, HopsInv, StageInv, Depth
<1> QED
  BY <1>1, <1>2, <1>3, <1>4, <1>5, <1>6, <1>7, <1>8, <1>9, <1>10
  DEF Next, Handle, PollerStores, AppStartsOrStops, vars

LEMMA HopInvariant == Spec => []HopInv
BY HopInitially, HopStep, PTL DEF Spec

-------------------------------------------------------------------------------

\* handle_request answers 508 only to a request that was forwarded max_hops
\* times, whatever max_hops is and wherever the request has been.
THEOREM FalseLoopsAreNotReported == Spec => NoFalseLoop
<1>1. HopInv /\ [Next]_vars => [At("head") /\ calls'[Depth].status = "508" => Depth > MaxHops]_vars
  <2> SUFFICES ASSUME HopInv, [Next]_vars, At("head"), calls'[Depth].status = "508"
               PROVE  Depth > MaxHops
    OBVIOUS
  <2>1. /\ calls # <<>> /\ Current.stage = "head" /\ Current.status = "none"
        /\ Depth \in 1..Len(calls) /\ Current = calls[Depth]
    BY LastIsCall DEF At, Current
  <2>2. CASE UNCHANGED calls
    BY <2>1, <2>2
  <2>3. CASE MissingHost
    BY <2>1, <2>3, AnswerStep DEF MissingHost
  <2>4. CASE LookUp
    BY <2>4, LookUpStep
  <2>5. CASE LoopDetected
    <3>1. ExtractHops(Current.hops) >= MaxHops
      BY <2>5 DEF LoopDetected
    <3>2. ExtractHops(Current.hops) = IF Depth = 1 THEN 0 ELSE 1
      BY <2>1 DEF HopInv, HopsInv, ExtractHops
    <3>3. Depth \in Int /\ Depth >= 1
      BY <2>1
    <3> QED
      BY <3>1, <3>2, <3>3, MaxHopsAssumption
  <2> QED
    BY <2>1, <2>2, <2>3, <2>4, <2>5
    DEF Next, Handle, ClientRequest, Connect, PassBack, AppAnswers, AppFails, AppSendsOn,
        PollerStores, AppStartsOrStops, At, vars
<1> QED
  BY HopInvariant, <1>1, PTL DEF Spec, NoFalseLoop

\* For every max_hops, any routes, apps and dev servers: with max_hops = 1, or 0, no
\* request is forwarded more often than that; with more, none is answered 508, for
\* from the second request of a chain on handle_request reads a count of one.
THEOREM LoopsAreCutAtOne == Spec => []LoopIsCutAtOne
<1>1. HopInv => LoopIsCutAtOne
  <2> SUFFICES ASSUME HopInv PROVE LoopIsCutAtOne
    OBVIOUS
  <2>1. Depth = Len(calls) /\ Len(calls) \in Nat
    BY LenProperties DEF HopInv, ChainInv, Depth
  <2>2. CASE MaxHops = 0
    <3>1. ASSUME 1 < Depth PROVE FALSE
      <4>1. 1 \in 1..Len(calls)
        BY <2>1, <3>1
      <4>2. ExtractHops(calls[1].hops) < MaxHops /\ ExtractHops(calls[1].hops) = 0
        BY <3>1, <4>1 DEF HopInv, StageInv, HopsInv, ExtractHops
      <4> QED
        BY <2>2, <4>2
    <3> QED
      BY <2>1, <2>2, <3>1 DEF LoopIsCutAtOne
  <2>3. CASE MaxHops = 1
    <3>1. ASSUME 2 < Depth PROVE FALSE
      <4>1. 2 \in 1..Len(calls)
        BY <2>1, <3>1
      <4>2. ExtractHops(calls[2].hops) < MaxHops /\ ExtractHops(calls[2].hops) = 1
        BY <3>1, <4>1 DEF HopInv, StageInv, HopsInv, ExtractHops
      <4> QED
        BY <2>3, <4>2
    <3> QED
      BY <2>1, <2>3, <3>1 DEF LoopIsCutAtOne
  <2>4. CASE MaxHops > 1
    <3>1. ~(MaxHops <= 1) /\ DOMAIN calls = 1..Len(calls)
      BY <2>4, MaxHopsAssumption, ChainIsFunction DEF HopInv, ChainInv, Chain
    <3> QED
      BY <3>1 DEF HopInv, StageInv, LoopIsCutAtOne
  <2> QED
    BY <2>2, <2>3, <2>4, MaxHopsAssumption
<1> QED
  BY HopInvariant, <1>1, PTL

-------------------------------------------------------------------------------
(* Prefixes and what is left of a path                                      *)

LEMMA RootIsPath == Root \in Seq(Tokens) /\ Len(Root) = 1 /\ Root[1] = Slash
<1>1. PICK e \in Tokens : e = Slash
  BY TokensAssumption
<1>2. <<e>> \in Seq(Tokens) /\ Len(<<e>>) = 1 /\ <<e>>[1] = e
  OBVIOUS
<1> QED
  BY <1>1, <1>2 DEF Root

LEMMA NormalizedIsPath ==
  ASSUME NEW p \in Seq(Tokens)
  PROVE  /\ NormalizePathPrefix(p) \in Seq(Tokens)
         /\ Len(NormalizePathPrefix(p)) >= 1
         /\ NormalizePathPrefix(p)[1] = Slash
<1> DEFINE rooted == IF StartsWithSlash(p) THEN p ELSE Root \o p
<1>1. rooted \in Seq(Tokens) /\ Len(rooted) >= 1 /\ rooted[1] = Slash
  <2>1. CASE StartsWithSlash(p)
    BY <2>1, LenProperties DEF StartsWithSlash
  <2>2. CASE ~StartsWithSlash(p)
    BY <2>2, RootIsPath, LenProperties, ConcatProperties
  <2> QED
    BY <2>1, <2>2
<1> HIDE DEF rooted
<1>2. CASE Len(rooted) > 1 /\ EndsWithSlash(rooted)
  <2> DEFINE q == SubSeq(rooted, 1, Len(rooted) - 1)
  <2>1. q \in Seq(Tokens) /\ Len(q) = Len(rooted) - 1 /\ q[1] = rooted[1]
    BY <1>1, <1>2, LenProperties
  <2>2. NormalizePathPrefix(p) = q
    BY <1>2 DEF NormalizePathPrefix, rooted
  <2>3. Len(rooted) \in Nat
    BY <1>1, LenProperties
  <2> QED
    BY <1>1, <1>2, <2>1, <2>2, <2>3
<1>3. CASE ~(Len(rooted) > 1 /\ EndsWithSlash(rooted))
  BY <1>1, <1>3 DEF NormalizePathPrefix, rooted
<1> QED
  BY <1>2, <1>3

\* What is left of a path under a mount is a path again, and the mount before it
\* gives the path back, a mount itself being left as "/".
LEMMA StripOfMatch ==
  ASSUME NEW path \in Seq(Tokens), NEW prefix \in Seq(Tokens),
         prefix # Root, PathMatchesPrefix(path, prefix)
  PROVE  LET mount  == NormalizePathPrefix(prefix)
             onward == StripPathPrefix(path, prefix)
         IN  /\ onward \in Seq(Tokens)
             /\ path = mount \o onward \/ (path = mount /\ onward = Root)
<1> DEFINE mount == NormalizePathPrefix(prefix)
           rest  == SubSeq(path, Len(mount) + 1, Len(path))
<1>1. mount \in Seq(Tokens) /\ Len(mount) \in Nat /\ Len(path) \in Nat
  BY NormalizedIsPath, LenProperties
<1> HIDE DEF mount
<1>2. path = mount \/ StartsWith(path, mount \o Root)
  BY DEF PathMatchesPrefix, mount
<1>3. CASE path = mount
  <2>1. StartsWith(path, mount) /\ rest = <<>>
    BY <1>1, <1>3, SubSeqFull, SubSeqEmpty DEF StartsWith
  <2>2. ~StartsWithSlash(<<>>) /\ TrimLeadingSlashes(<<>>) = <<>>
    BY DEF StartsWithSlash, TrimLeadingSlashes
  <2>3. StripPathPrefix(path, prefix) = Root \o <<>>
    BY <2>1, <2>2 DEF StripPathPrefix, mount
  <2> QED
    BY <1>3, <2>3, RootIsPath, ConcatEmptySeq DEF mount
<1>4. CASE StartsWith(path, mount \o Root)
  <2>1. /\ mount \o Root \in Seq(Tokens) /\ Len(mount \o Root) = Len(mount) + 1
        /\ \A i \in 1..Len(mount) : (mount \o Root)[i] = mount[i]
        /\ (mount \o Root)[Len(mount) + 1] = Slash
    <3> DEFINE s == mount \o Root
    <3>1. /\ s \in Seq(Tokens) /\ Len(s) = Len(mount) + Len(Root)
          /\ \A i \in 1..(Len(mount) + Len(Root)) :
               s[i] = IF i <= Len(mount) THEN mount[i] ELSE Root[i - Len(mount)]
      BY <1>1, RootIsPath, ConcatProperties
    <3>2. Len(mount) + 1 \in 1..(Len(mount) + Len(Root)) /\ (Len(mount) + 1) - Len(mount) = 1
      BY <1>1, RootIsPath
    <3> HIDE DEF s
    <3>3. s[Len(mount) + 1] = Slash
      BY <1>1, <3>1, <3>2, RootIsPath
    <3>4. \A i \in 1..Len(mount) : s[i] = mount[i]
      BY <1>1, <3>1, RootIsPath
    <3> QED
      BY <3>1, <3>3, <3>4, RootIsPath DEF s
  <2>2. Len(mount) + 1 <= Len(path) /\ SubSeq(path, 1, Len(mount) + 1) = mount \o Root
    BY <1>4, <2>1 DEF StartsWith
  <2>3. \A i \in 1..(Len(mount) + 1) : path[i] = (mount \o Root)[i]
    <3>1. \A i \in 1..(Len(mount) + 1) : SubSeq(path, 1, Len(mount) + 1)[i] = path[i]
      BY <1>1, <2>2
    <3> QED
      BY <2>2, <3>1
  <2>4. SubSeq(path, 1, Len(mount)) = mount
    <3>1. /\ SubSeq(path, 1, Len(mount)) \in Seq(Tokens)
          /\ Len(SubSeq(path, 1, Len(mount))) = Len(mount)
          /\ \A i \in 1..Len(mount) : SubSeq(path, 1, Len(mount))[i] = path[i]
      BY <1>1, <2>2
    <3> QED
      BY <1>1, <2>1, <2>3, <3>1, SeqEqual
  <2>5. StartsWith(path, mount)
    BY <1>1, <2>2, <2>4 DEF StartsWith
  <2>6. rest \in Seq(Tokens) /\ Len(rest) = Len(path) - Len(mount) /\ rest[1] = Slash
    BY <1>1, <2>1, <2>2, <2>3
  <2>7. StripPathPrefix(path, prefix) = rest
    BY <1>1, <2>2, <2>5, <2>6 DEF StripPathPrefix, StartsWithSlash, mount
  <2>8. path = mount \o rest
    <3>1. SubSeq(path, 1, Len(mount)) \o rest = SubSeq(path, 1, Len(path))
      <4>1. /\ 1 \in 1..(Len(path) + 1) /\ Len(mount) \in (1 - 1)..Len(path)
            /\ Len(path) \in Len(mount)..Len(path)
        BY <1>1, <2>2
      <4> QED
        BY <4>1, ConcatAdjacentSubSeq
    <3> QED
      BY <2>4, <3>1, SubSeqFull
  <2> QED
    BY <2>6, <2>7, <2>8 DEF mount
<1> QED
  BY <1>2, <1>3, <1>4

-------------------------------------------------------------------------------
(* Numbers: a set of them has a least one, and what that gives             *)

LEMMA Least ==
  ASSUME NEW T \in SUBSET Nat, T # {}
  PROVE  \E i \in T : \A j \in T : i <= j
<1> DEFINE Below == {ss \in Nat \X Nat : ss[1] < ss[2]}
<1>1. IsWellFoundedOn(Below, Nat)
  BY NatLessThanWellFounded DEF OpToRel
<1>2. \A j, i \in Nat : i <= j \/ <<j, i>> \in Below
  OBVIOUS
<1> HIDE DEF Below
<1>3. PICK i \in T : \A j \in T : ~(<<j, i>> \in Below)
  BY <1>1, WFMin
<1>4. \A j \in T : i <= j
  BY <1>2, <1>3
<1> QED
  BY <1>4

\* Induction, over a set rather than a predicate.
LEMMA Induction ==
  ASSUME NEW S, 0 \in S, \A n \in Nat : n \in S => n + 1 \in S
  PROVE  \A n \in Nat : n \in S
<1> DEFINE T == {n \in Nat : n \notin S}
<1> SUFFICES ASSUME T # {} PROVE FALSE
  OBVIOUS
<1>1. PICK m \in T : \A n \in T : m <= n
  <2>1. T \in SUBSET Nat
    OBVIOUS
  <2> HIDE DEF T
  <2> QED
    BY <2>1, Least
<1>2. m - 1 \in Nat /\ m - 1 \in S /\ (m - 1) + 1 = m
  BY <1>1
<1> QED
  BY <1>2

LEMMA Greatest ==
  ASSUME NEW m \in Nat, NEW g, \A i \in 1..m : g[i] \in Nat,
         NEW F \in SUBSET (1..m), F # {}
  PROVE  \E i \in F : \A j \in F : g[j] <= g[i]
<1> DEFINE Has(G) == \E i \in G : \A j \in G : g[j] <= g[i]
           S == {n \in Nat : n <= m => \A G \in SUBSET (1..n) : G # {} => Has(G)}
<1>1. 0 \in S
  <2>1. 1..0 = {}
    OBVIOUS
  <2> QED
    BY <2>1
<1>2. \A n \in Nat : n \in S => n + 1 \in S
  <2> SUFFICES ASSUME NEW n \in Nat, n \in S, n + 1 <= m,
                      NEW G \in SUBSET (1..(n + 1)), G # {}
               PROVE  Has(G)
    <3> HIDE DEF Has
    <3> QED
      OBVIOUS
  <2>1. \A i \in 1..(n + 1) : i # n + 1 => i \in 1..n
    OBVIOUS
  <2>2. \A i \in G : g[i] \in Nat
    <3>1. \A i \in 1..(n + 1) : i \in 1..m
      OBVIOUS
    <3> QED
      BY <3>1
  <2>3. G \ {n + 1} \in SUBSET (1..n)
    BY <2>1
  <2>4. CASE G \ {n + 1} = {}
    BY <2>2, <2>4
  <2>5. CASE G \ {n + 1} # {}
    <3>1. PICK k \in G \ {n + 1} : \A j \in G \ {n + 1} : g[j] <= g[k]
      <4>1. Has(G \ {n + 1})
        <5> HIDE DEF Has
        <5>1. n <= m
          OBVIOUS
        <5> QED
          BY <2>3, <2>5, <5>1
      <4> QED
        BY <4>1
    <3>2. CASE n + 1 \in G /\ g[k] < g[n + 1]
      <4>1. \A j \in G : g[j] <= g[n + 1]
        BY <2>2, <3>1, <3>2
      <4> QED
        BY <3>2, <4>1
    <3>3. CASE ~(n + 1 \in G /\ g[k] < g[n + 1])
      <4>1. \A j \in G : g[j] <= g[k]
        BY <2>2, <3>1, <3>3
      <4> QED
        BY <3>1, <4>1
    <3> QED
      BY <3>2, <3>3
  <2> QED
    BY <2>4, <2>5
<1> HIDE DEF S
<1>3. m \in S
  BY <1>1, <1>2, Induction
<1> QED
  BY <1>3 DEF S

-------------------------------------------------------------------------------
(* The route that is found                                                  *)

Longest(found, t) == {i \in found : \A j \in found : Len(t[j].prefix) <= Len(t[i].prefix)}

LEMMA TableType ==
  ASSUME NEW t \in Tables
  PROVE  /\ Len(t) \in Nat /\ DOMAIN t = 1..Len(t)
         /\ \A i \in DOMAIN t : /\ t[i].host \in Seq(Labels)
                                /\ t[i].prefix \in Seq(Tokens) /\ Len(t[i].prefix) \in Nat
<1>1. t \in Seq({t[i] : i \in DOMAIN t})
  BY TablesAssumption
<1>2. \A i \in DOMAIN t : t[i].host \in Seq(Labels) /\ t[i].prefix \in Seq(Tokens)
  BY TablesAssumption
<1> QED
  BY <1>1, <1>2, LenProperties

\* find_route: the earliest of the routes with the longest prefix among those
\* that match.
LEMMA FoundRoute ==
  ASSUME NEW t \in Tables, NEW host, NEW path
  PROVE  LET found == Candidates(host, path, t, Domains)
             route == FindRoute(host, path, t, Domains)
         IN  \/ found = {} /\ route = NoRoute
             \/ \E k \in Longest(found, t) :
                  route = t[k] /\ \A j \in Longest(found, t) : k <= j
<1> DEFINE found == Candidates(host, path, t, Domains)
           L     == Longest(found, t)
           g     == [i \in 1..Len(t) |-> Len(t[i].prefix)]
<1>1. CASE found = {}
  BY <1>1 DEF FindRoute
<1>2. CASE found # {}
  <2>1. found \in SUBSET (1..Len(t)) /\ Len(t) \in Nat
    BY TableType DEF Candidates
  <2>2. \A i \in 1..Len(t) : g[i] = Len(t[i].prefix) /\ g[i] \in Nat
    BY TableType
  <2> HIDE DEF found
  <2>3. PICK i \in found : \A j \in found : g[j] <= g[i]
    <3> HIDE DEF g
    <3> QED
      BY <1>2, <2>1, <2>2, Greatest
  <2>4. i \in L
    BY <2>1, <2>2, <2>3 DEF Longest
  <2>5. L \in SUBSET Nat
    <3>1. \A n \in 1..Len(t) : n \in Nat
      BY <2>1
    <3>2. \A n \in L : n \in found
      BY DEF Longest
    <3> QED
      BY <2>1, <3>1, <3>2
  <2> HIDE DEF L
  <2>6. \E k \in L : \A j \in L : k <= j
    BY <2>4, <2>5, Least
  <2>7. FindRoute(host, path, t, Domains) = t[CHOOSE k \in L : \A j \in L : k <= j]
    BY <1>2 DEF FindRoute, found, L, Longest
  <2> QED
    BY <2>6, <2>7 DEF found, L
<1> QED
  BY <1>1, <1>2

\* A route is reached under its own address: of the mounts above the address its
\* own is the longest, and the store has it once.
LEMMA OwnMount ==
  ASSUME NEW t \in Tables, NEW i \in DOMAIN t,
         \A j \in DOMAIN t :
           HostnameMatches(t[j].host, t[i].host, Domains) =>
             t[j].host = t[i].host /\ NormalizePathPrefix(t[j].prefix) = t[j].prefix
  PROVE  FindRoute(t[i].host, t[i].prefix, t, Domains) = t[i]
<1> DEFINE path  == t[i].prefix
           found == Candidates(t[i].host, path, t, Domains)
<1>1. \A j \in DOMAIN t :
        HostnameMatches(t[j].host, t[i].host, Domains) =>
          /\ t[j].prefix \in Seq(Tokens) /\ Len(t[j].prefix) \in Nat
          /\ NormalizePathPrefix(t[j].prefix) = t[j].prefix
          /\ Len(t[j].prefix) >= 1 /\ t[j].prefix[1] = Slash
  BY TableType, NormalizedIsPath
<1>2. i \in found
  BY <1>1 DEF Candidates, HostnameMatches, PathMatchesPrefix
<1>3. ASSUME NEW j \in found, Len(path) <= Len(t[j].prefix) PROVE j = i
  <2> DEFINE p == t[j].prefix
  <2>1. /\ j \in DOMAIN t /\ HostnameMatches(t[j].host, t[i].host, Domains)
        /\ t[j].host = t[i].host /\ PathMatchesPrefix(path, p)
    BY <1>3 DEF Candidates
  <2>2. /\ path \in Seq(Tokens) /\ Len(path) \in Nat /\ Len(path) >= 1 /\ path[1] = Slash
        /\ p \in Seq(Tokens) /\ Len(p) \in Nat /\ NormalizePathPrefix(p) = p
    BY <1>1, <1>2, <2>1 DEF Candidates
  <2>3. Len(path) <= Len(p)
    BY <1>3
  <2>4. p = path
    <3> HIDE DEF p, path
    <3>1. CASE p = Root
      <4>1. Len(path) = 1
        BY <2>2, <2>3, <3>1, RootIsPath
      <4>2. \A k \in 1..1 : path[k] = Root[k]
        BY <2>2, RootIsPath
      <4> QED
        BY <2>2, <3>1, <4>1, <4>2, RootIsPath, SeqEqual
    <3>2. CASE StartsWith(path, p \o Root)
      <4>1. Len(p \o Root) = Len(p) + 1
        <5>1. Len(p \o Root) = Len(p) + Len(Root)
          <6>1. p \in Seq(Tokens) /\ Root \in Seq(Tokens)
            BY <2>2, RootIsPath
          <6> QED
            BY <6>1, ConcatProperties
        <5> QED
          BY <5>1, RootIsPath
      <4>2. Len(p) + 1 <= Len(path)
        BY <3>2, <4>1 DEF StartsWith
      <4> QED
        BY <2>2, <2>3, <4>2
    <3> QED
      BY <2>1, <2>2, <3>1, <3>2 DEF PathMatchesPrefix
  <2> QED
    BY <2>1, <2>2, <2>4, TablesAssumption
<1>4. PICK k \in Longest(found, t) : FindRoute(t[i].host, path, t, Domains) = t[k]
  BY <1>2, FoundRoute
<1>5. k \in found /\ Len(path) <= Len(t[k].prefix)
  BY <1>2, <1>4 DEF Longest
<1> QED
  BY <1>3, <1>4, <1>5

-------------------------------------------------------------------------------
(* Hostnames under several domains                                          *)

\* IsSubdomain, label by label, a hostname being below itself.
EndsIn(a, b) ==
  Len(b) <= Len(a) /\ \A j \in 1..Len(b) : a[Len(a) - Len(b) + j] = b[j]

LEMMA SubdomainEndsIn ==
  ASSUME NEW S, NEW a \in Seq(S), NEW b \in Seq(S)
  PROVE  /\ IsSubdomain(a, b) <=> Len(b) < Len(a) /\ EndsIn(a, b)
         /\ (a = b \/ IsSubdomain(a, b)) <=> EndsIn(a, b)
<1> DEFINE n == Len(a) - Len(b)
           t == SubSeq(a, n + 1, Len(a))
<1>1. Len(a) \in Nat /\ Len(b) \in Nat
  BY LenProperties
<1>2. Len(b) <= Len(a) => (t = b <=> \A j \in 1..Len(b) : a[n + j] = b[j])
  <2> SUFFICES ASSUME Len(b) <= Len(a)
               PROVE  t = b <=> \A j \in 1..Len(b) : a[n + j] = b[j]
    OBVIOUS
  <2>1. t \in Seq(S) /\ Len(t) = Len(b) /\ \A j \in 1..Len(b) : t[j] = a[n + j]
    BY <1>1
  <2> HIDE DEF t, n
  <2>2. t = b <=> \A j \in 1..Len(b) : t[j] = b[j]
    BY <2>1, SeqEqual
  <2> QED
    BY <2>1, <2>2
<1>3. IsSubdomain(a, b) <=> Len(b) < Len(a) /\ EndsIn(a, b)
  BY <1>1, <1>2 DEF IsSubdomain, EndsIn
<1>4. a = b <=> Len(b) = Len(a) /\ EndsIn(a, b)
  <2>1. CASE Len(b) = Len(a)
    <3>1. \A j \in 1..Len(b) : Len(a) - Len(b) + j = j
      BY <1>1, <2>1
    <3>2. EndsIn(a, b) <=> \A j \in 1..Len(b) : a[j] = b[j]
      BY <1>1, <2>1, <3>1 DEF EndsIn
    <3> QED
      BY <2>1, <3>2, SeqEqual
  <2> QED
    BY <2>1
<1> QED
  BY <1>1, <1>3, <1>4 DEF EndsIn

LEMMA EndsInBoth ==
  ASSUME NEW S, NEW a \in Seq(S), NEW b \in Seq(S), NEW c \in Seq(S),
         EndsIn(a, b), EndsIn(a, c), Len(b) <= Len(c)
  PROVE  EndsIn(c, b)
<1>1. Len(a) \in Nat /\ Len(b) \in Nat /\ Len(c) \in Nat
  BY LenProperties
<1>2. ASSUME NEW j \in 1..Len(b) PROVE c[Len(c) - Len(b) + j] = b[j]
  <2>1. /\ Len(c) - Len(b) + j \in 1..Len(c)
        /\ Len(a) - Len(c) + (Len(c) - Len(b) + j) = Len(a) - Len(b) + j
    BY <1>1
  <2> QED
    BY <2>1 DEF EndsIn
<1> QED
  BY <1>2 DEF EndsIn

LEMMA ConcatEndsIn ==
  ASSUME NEW S, NEW x \in Seq(S), NEW d \in Seq(S)
  PROVE  /\ x \o d \in Seq(S) /\ Len(x \o d) = Len(x) + Len(d)
         /\ EndsIn(x \o d, d)
         /\ SubSeq(x \o d, 1, Len(x)) = x
<1> DEFINE s == x \o d
<1>1. /\ s \in Seq(S) /\ Len(s) = Len(x) + Len(d) /\ Len(x) \in Nat /\ Len(d) \in Nat
      /\ \A i \in 1..(Len(x) + Len(d)) : s[i] = IF i <= Len(x) THEN x[i] ELSE d[i - Len(x)]
  BY LenProperties, ConcatProperties
<1> HIDE DEF s
<1>2. EndsIn(s, d)
  BY SMTT(30), <1>1 DEF EndsIn
<1>3. SubSeq(s, 1, Len(x)) = x
  <2>1. /\ SubSeq(s, 1, Len(x)) \in Seq(S) /\ Len(SubSeq(s, 1, Len(x))) = Len(x)
        /\ \A i \in 1..Len(x) : SubSeq(s, 1, Len(x))[i] = x[i]
    BY <1>1
  <2> QED
    BY <2>1, SeqEqual
<1> QED
  BY <1>1, <1>2, <1>3 DEF s

\* A hostname is what is before its end, and its end.
LEMMA SplitsAtEnd ==
  ASSUME NEW S, NEW a \in Seq(S), NEW d \in Seq(S), EndsIn(a, d)
  PROVE  LET x == SubSeq(a, 1, Len(a) - Len(d))
         IN  x \in Seq(S) /\ Len(x) = Len(a) - Len(d) /\ a = x \o d
<1> DEFINE x == SubSeq(a, 1, Len(a) - Len(d))
<1>1. Len(a) \in Nat /\ Len(d) \in Nat /\ Len(d) <= Len(a)
  BY LenProperties DEF EndsIn
<1>2. /\ x \in Seq(S) /\ Len(x) = Len(a) - Len(d)
      /\ \A i \in 1..(Len(a) - Len(d)) : x[i] = a[i]
  BY <1>1
<1> HIDE DEF x
<1>3. /\ x \o d \in Seq(S) /\ Len(x \o d) = Len(x) + Len(d)
      /\ \A i \in 1..(Len(x) + Len(d)) :
           (x \o d)[i] = IF i <= Len(x) THEN x[i] ELSE d[i - Len(x)]
  BY <1>2, ConcatProperties
<1>4. Len(x \o d) = Len(a)
  BY <1>1, <1>2, <1>3
<1>5. ASSUME NEW i \in 1..Len(a) PROVE (x \o d)[i] = a[i]
  <2>1. CASE i <= Len(x)
    BY <1>1, <1>2, <1>3, <2>1
  <2>2. CASE ~(i <= Len(x))
    <3>1. /\ i - Len(x) \in 1..Len(d) /\ i \in 1..(Len(x) + Len(d))
          /\ Len(a) - Len(d) + (i - Len(x)) = i
      BY <1>1, <1>2, <2>2
    <3>2. (x \o d)[i] = d[i - Len(x)]
      BY <1>3, <2>2, <3>1
    <3>3. a[Len(a) - Len(d) + (i - Len(x))] = d[i - Len(x)]
      BY <3>1 DEF EndsIn
    <3> QED
      BY <3>1, <3>2, <3>3
  <2> QED
    BY <2>1, <2>2
<1>6. x \o d = a
  BY <1>3, <1>4, <1>5, SeqEqual
<1> QED
  BY <1>2, <1>6 DEF x

LEMMA DomainType ==
  ASSUME NEW k \in DOMAIN Domains
  PROVE  Domains[k] \in Seq(Labels) /\ Len(Domains[k]) \in Nat
<1>1. Domains[k] \in Seq(Labels)
  BY DomainsAssumption
<1> QED
  BY <1>1, LenProperties

\* The first of a hostname's domains.
IsFirst(i, host) ==
  /\ i \in DOMAIN Domains /\ EndsIn(host, Domains[i])
  /\ \A j \in DOMAIN Domains : EndsIn(host, Domains[j]) => i <= j

LEMMA FirstDomain ==
  ASSUME NEW host \in Seq(Labels)
  PROVE  IF \E j \in DOMAIN Domains : EndsIn(host, Domains[j])
           THEN \E i : /\ IsFirst(i, host)
                       /\ StripDomainSuffix(host, Domains)
                            = SubSeq(host, 1, Len(host) - Len(Domains[i]))
           ELSE StripDomainSuffix(host, Domains) = <<>>
<1> DEFINE found == DomainsOf(host, Domains)
           First(i) == \A j \in found : i <= j
<1>1. found = {j \in DOMAIN Domains : EndsIn(host, Domains[j])}
  BY DomainType, SubdomainEndsIn DEF DomainsOf
<1>2. found \in SUBSET Nat
  <2>1. DOMAIN Domains = 1..Len(Domains) /\ Len(Domains) \in Nat
    BY DomainsAssumption, LenProperties
  <2> QED
    BY <2>1 DEF DomainsOf
<1>3. CASE found # {}
  <2> HIDE DEF found
  <2>1. \E i \in found : First(i)
    BY <1>2, <1>3, Least
  <2>2. StripDomainSuffix(host, Domains)
          = SubSeq(host, 1, Len(host) - Len(Domains[CHOOSE i \in found : First(i)]))
    BY <1>3 DEF StripDomainSuffix, found
  <2>3. PICK i \in found : /\ First(i)
                           /\ StripDomainSuffix(host, Domains)
                                = SubSeq(host, 1, Len(host) - Len(Domains[i]))
    BY <2>1, <2>2
  <2>4. IsFirst(i, host)
    BY <1>1, <2>3 DEF IsFirst
  <2> QED
    BY <1>1, <2>3, <2>4
<1>4. CASE found = {}
  BY <1>1, <1>4 DEF StripDomainSuffix
<1> QED
  BY <1>3, <1>4, <1>1

LEMMA NameOfHost ==
  ASSUME NEW host \in Seq(Labels)
  PROVE  StripDomainSuffix(host, Domains) \in Seq(Labels)
<1>1. CASE \E j \in DOMAIN Domains : EndsIn(host, Domains[j])
  <2>1. PICK i : /\ IsFirst(i, host)
                 /\ StripDomainSuffix(host, Domains)
                      = SubSeq(host, 1, Len(host) - Len(Domains[i]))
    BY <1>1, FirstDomain
  <2> QED
    BY <2>1, DomainType, SplitsAtEnd DEF IsFirst
<1>2. CASE ~\E j \in DOMAIN Domains : EndsIn(host, Domains[j])
  BY <1>2, FirstDomain, EmptySeq
<1> QED
  BY <1>1, <1>2

LEMMA EndsInIsTransitive ==
  ASSUME NEW S, NEW a \in Seq(S), NEW b \in Seq(S), NEW c \in Seq(S),
         EndsIn(a, b), EndsIn(b, c)
  PROVE  EndsIn(a, c)
<1>1. Len(a) \in Nat /\ Len(b) \in Nat /\ Len(c) \in Nat
  BY LenProperties
<1>2. ASSUME NEW j \in 1..Len(c) PROVE a[Len(a) - Len(c) + j] = c[j]
  <2>1. /\ Len(b) - Len(c) + j \in 1..Len(b)
        /\ Len(a) - Len(b) + (Len(b) - Len(c) + j) = Len(a) - Len(c) + j
    BY <1>1 DEF EndsIn
  <2> QED
    BY <2>1 DEF EndsIn
<1> QED
  BY <1>1, <1>2 DEF EndsIn

\* What is left of two hostnames, one below the other, when the same end is taken off.
LEMMA NamesEndIn ==
  ASSUME NEW S, NEW name \in Seq(S), NEW x \in Seq(S), NEW d \in Seq(S),
         EndsIn(name \o d, x \o d), Len(x \o d) < Len(name \o d)
  PROVE  IsSubdomain(name, x)
<1> DEFINE a == name \o d
           b == x \o d
<1>1. /\ Len(a) = Len(name) + Len(d) /\ Len(b) = Len(x) + Len(d)
      /\ Len(name) \in Nat /\ Len(x) \in Nat /\ Len(d) \in Nat
  BY LenProperties, ConcatProperties
<1>2. Len(x) < Len(name)
  BY <1>1
<1>3. ASSUME NEW j \in 1..Len(x) PROVE name[Len(name) - Len(x) + j] = x[j]
  <2>1. /\ j \in 1..Len(b) /\ Len(a) - Len(b) + j = Len(name) - Len(x) + j
        /\ Len(name) - Len(x) + j \in 1..Len(name)
    BY <1>1, <1>2
  <2>2. a[Len(a) - Len(b) + j] = b[j]
    BY <2>1 DEF EndsIn
  <2>3. b[j] = x[j]
    BY <1>1, <2>1, ConcatProperties
  <2>4. a[Len(name) - Len(x) + j] = name[Len(name) - Len(x) + j]
    BY <1>1, <2>1, ConcatProperties
  <2> QED
    BY <2>1, <2>2, <2>3, <2>4
<1>4. EndsIn(name, x)
  BY <1>1, <1>2, <1>3 DEF EndsIn
<1> QED
  BY <1>2, <1>4, SubdomainEndsIn

\* hostname_matches asks for the name alone: the route's, the request's, or one that
\* the request's is below, whatever domains the two are under.
LEMMA MatchesByName ==
  ASSUME NEW rh \in Seq(Labels), ~HoldsDomain(rh),
         NEW host \in Seq(Labels), NEW name, name = StripDomainSuffix(host, Domains),
         name # <<>>
  PROVE  LET rp == StripDomainSuffix(rh, Domains)
         IN  HostnameMatches(rh, host, Domains)
               <=> rp # <<>> /\ (rp = name \/ IsSubdomain(name, rp))
<1> DEFINE rp == StripDomainSuffix(rh, Domains)
<1>1. PICK k : IsFirst(k, host) /\ name = SubSeq(host, 1, Len(host) - Len(Domains[k]))
  BY FirstDomain
<1>2. PICK d : d = Domains[k]
  OBVIOUS
<1>3. /\ k \in DOMAIN Domains /\ d \in Seq(Labels) /\ EndsIn(host, d)
      /\ Len(d) \in Nat /\ Len(host) \in Nat /\ Len(rh) \in Nat
  BY <1>1, <1>2, DomainType, LenProperties DEF IsFirst
<1>4. name \in Seq(Labels) /\ host = name \o d
  <2>1. name = SubSeq(host, 1, Len(host) - Len(d))
    BY <1>1, <1>2
  <2> QED
    BY <1>3, <2>1, SplitsAtEnd
<1>5. ASSUME IsSubdomain(host, rh) PROVE rp # <<>> /\ IsSubdomain(name, rp)
  <2>1. EndsIn(host, rh) /\ Len(rh) < Len(host)
    BY <1>5, SubdomainEndsIn
  <2>2. ~EndsIn(d, rh)
    BY <1>2, <1>3, SubdomainEndsIn DEF HoldsDomain
  <2>3. Len(d) < Len(rh)
    BY <1>3, <2>1, <2>2, EndsInBoth
  <2>4. EndsIn(rh, d)
    BY <1>3, <2>1, <2>3, EndsInBoth
  <2>5. PICK m : IsFirst(m, rh) /\ rp = SubSeq(rh, 1, Len(rh) - Len(Domains[m]))
    BY <1>2, <1>3, <2>4, FirstDomain
  <2>6. m = k
    <3>1. m \in DOMAIN Domains /\ EndsIn(rh, Domains[m]) /\ m <= k
      BY <1>2, <1>3, <2>4, <2>5 DEF IsFirst
    <3>2. EndsIn(host, Domains[m])
      BY <2>1, <3>1, DomainType, EndsInIsTransitive
    <3>3. k <= m
      BY <1>1, <3>1, <3>2 DEF IsFirst
    <3>4. k \in Nat /\ m \in Nat
      BY <1>3, <3>1, DomainsAssumption, LenProperties
    <3> QED
      BY <3>1, <3>3, <3>4
  <2>7. rp \in Seq(Labels) /\ Len(rp) = Len(rh) - Len(d) /\ rh = rp \o d
    <3>1. rp = SubSeq(rh, 1, Len(rh) - Len(d))
      BY <1>2, <2>5, <2>6
    <3> QED
      BY <1>3, <2>4, <3>1, SplitsAtEnd
  <2> HIDE DEF rp
  <2>8. rp # <<>>
    BY <1>3, <2>3, <2>7, EmptySeq
  <2>9. IsSubdomain(name, rp)
    BY <1>3, <1>4, <2>1, <2>7, NamesEndIn
  <2> QED
    BY <2>8, <2>9
<1> QED
  BY <1>5 DEF HostnameMatches

\* Hence the route is the same for all hostnames of a name.
LEMMA SameRoute ==
  ASSUME NEW t \in Tables, NEW path, NEW host \in Seq(Labels), NEW other \in Seq(Labels),
         StripDomainSuffix(host, Domains) = StripDomainSuffix(other, Domains),
         StripDomainSuffix(host, Domains) # <<>>,
         \A j \in Candidates(host, path, t, Domains) \cup Candidates(other, path, t, Domains) :
           ~HoldsDomain(t[j].host)
  PROVE  FindRoute(other, path, t, Domains) = FindRoute(host, path, t, Domains)
<1>1. ASSUME NEW j \in DOMAIN t, ~HoldsDomain(t[j].host)
      PROVE  HostnameMatches(t[j].host, other, Domains)
               <=> HostnameMatches(t[j].host, host, Domains)
  BY <1>1, TableType, MatchesByName
<1>2. Candidates(other, path, t, Domains) = Candidates(host, path, t, Domains)
  BY <1>1 DEF Candidates
<1> QED
  BY <1>2 DEF FindRoute

-------------------------------------------------------------------------------
(* The paths of a chain                                                     *)

LEMMA ForwardedIsPath ==
  ASSUME NEW path \in Seq(Tokens), NEW route, route.prefix \in Seq(Tokens),
         PathMatchesPrefix(path, route.prefix)
  PROVE  ForwardedPath(path, route) \in Seq(Tokens)
BY StripOfMatch DEF ForwardedPath

LEMMA FoundRouteMatches ==
  ASSUME NEW t \in Tables, NEW host, NEW path, NEW route,
         route = FindRoute(host, path, t, Domains), route # NoRoute
  PROVE  route.prefix \in Seq(Tokens) /\ PathMatchesPrefix(path, route.prefix)
<1>1. PICK k \in Longest(Candidates(host, path, t, Domains), t) : route = t[k]
  BY FoundRoute
<1>2. k \in DOMAIN t /\ PathMatchesPrefix(path, t[k].prefix)
  BY <1>1 DEF Longest, Candidates
<1> QED
  BY <1>1, <1>2, TableType

\* A call that has a route has one that its path is under.
Placed(c) ==
  c.stage \in {"routed", "sent"} =>
    c.route.prefix \in Seq(Tokens) /\ PathMatchesPrefix(c.path, c.route.prefix)

LEMMA PathInvOf ==
  PathInv <=> \A i \in 1..Len(calls) :
                /\ calls[i].path \in Seq(Tokens) /\ Placed(calls[i])
                /\ i > 1 => calls[i].path = ForwardedPath(calls[i - 1].path, calls[i - 1].route)
BY DEF PathInv, Placed

LEMMA PathLastChanges ==
  ASSUME HopInv, PathInv, calls # <<>>, NEW e, e.path = Current.path, Placed(e),
         calls' = Put(calls, Depth, e)
  PROVE  PathInv'
<1>1. /\ Chain(calls) /\ Depth \in 1..Len(calls) /\ Depth = Len(calls)
      /\ Current = calls[Len(calls)]
  BY LastIsCall DEF Current
<1>2. /\ Len(calls') = Len(calls) /\ Len(calls) \in Nat
      /\ \A i \in 1..Len(calls) : calls'[i] = IF i = Len(calls) THEN e ELSE calls[i]
  <2>1. Len(calls) \in 1..Len(calls) /\ calls' = Put(calls, Len(calls), e)
    BY <1>1
  <2> QED
    BY <1>1, <2>1, ChainReplaced
<1>3. ASSUME NEW i \in 1..Len(calls)
      PROVE  /\ calls'[i].path \in Seq(Tokens) /\ Placed(calls'[i])
             /\ i > 1 => calls'[i].path = ForwardedPath(calls'[i - 1].path, calls'[i - 1].route)
  <2>1. calls'[i].path = calls[i].path /\ Placed(calls'[i])
    BY <1>1, <1>2, PathInvOf
  <2>2. i > 1 => calls'[i - 1] = calls[i - 1]
    BY <1>2
  <2> QED
    BY <2>1, <2>2, PathInvOf
<1> QED
  BY <1>2, <1>3 DEF PathInv, Placed

LEMMA PathAdded ==
  ASSUME HopInv, PathInv, calls # <<>>, NEW s, Chain(s), Len(s) = Len(calls),
         \A i \in 1..Len(s) :
           s[i].path = calls[i].path /\ s[i].route = calls[i].route /\ Placed(s[i]),
         NEW e, e.stage = "head", e.path \in Seq(Tokens),
         e.path = ForwardedPath(Current.path, Current.route),
         calls' = Append(s, e)
  PROVE  PathInv'
<1>1. Depth = Len(calls) /\ Len(calls) \in 1..Len(calls) /\ Current = calls[Len(calls)]
  BY LastIsCall DEF Current
<1>2. /\ Len(calls) \in Nat /\ Len(calls') = Len(calls) + 1
      /\ \A i \in 1..Len(calls) : calls'[i] = s[i]
      /\ calls'[Len(calls) + 1] = e
  BY ChainAppended
<1>3. ASSUME NEW i \in 1..Len(calls)
      PROVE  /\ calls'[i].path \in Seq(Tokens) /\ Placed(calls'[i])
             /\ i > 1 => calls'[i].path = ForwardedPath(calls'[i - 1].path, calls'[i - 1].route)
  <2>1. calls'[i].path = calls[i].path /\ Placed(calls'[i])
    BY <1>2
  <2>2. i > 1 => i - 1 \in 1..Len(calls)
    BY <1>2
  <2>3. i > 1 => calls'[i - 1].path = calls[i - 1].path /\ calls'[i - 1].route = calls[i - 1].route
    BY <1>2, <2>2
  <2> QED
    BY <2>1, <2>3, PathInvOf
<1>4. /\ calls'[Len(calls) + 1].path \in Seq(Tokens) /\ Placed(calls'[Len(calls) + 1])
      /\ calls'[Len(calls) + 1].path
           = ForwardedPath(calls'[Len(calls)].path, calls'[Len(calls)].route)
  BY <1>1, <1>2 DEF Placed
<1>5. \A i \in 1..Len(calls') : i \in 1..Len(calls) \/ (i = Len(calls) + 1 /\ i - 1 = Len(calls))
  BY <1>2
<1> QED
  BY <1>3, <1>4, <1>5 DEF PathInv, Placed

LEMMA AnswerKeepsPaths == ASSUME HopInv, PathInv, calls # <<>>, NEW status, Answer(status) PROVE PathInv'
<1>1. /\ Chain(calls) /\ Depth \in 1..Len(calls) /\ WellFormed(Current)
      /\ Current = calls[Depth]
  BY LastIsCall DEF Current
<1>2. calls' = Put(calls, Depth, Answered(Current, status))
  BY <1>1, ChainIsFunction DEF Answer, Put, Answered
<1>3. PICK e : e = Answered(Current, status)
  OBVIOUS
<1>4. e.path = Current.path /\ e.stage = "answered"
  BY <1>1, <1>3, CallAnswered
<1> QED
  BY <1>2, <1>3, <1>4, PathLastChanges DEF Placed

LEMMA LookUpKeepsPaths == ASSUME HopInv, PathInv, cache \in Tables, LookUp PROVE PathInv'
<1>1. calls # <<>>
  BY DEF LookUp, At
<1>2. CASE Answer("404")
  BY <1>1, <1>2, AnswerKeepsPaths
<1>3. ASSUME NEW route, route = FindRoute(Current.host, Current.path, cache, Domains),
             route # NoRoute,
             calls' = [calls EXCEPT ![Depth].stage = "routed", ![Depth].route = route]
      PROVE  PathInv'
  <2>1. /\ Chain(calls) /\ Depth \in 1..Len(calls) /\ WellFormed(Current)
        /\ Current = calls[Depth]
    BY <1>1, LastIsCall DEF Current
  <2>2. calls' = Put(calls, Depth, Routed(Current, route))
    BY <1>3, <2>1, ChainIsFunction DEF Put, Routed
  <2>3. PICK e : e = Routed(Current, route)
    OBVIOUS
  <2>4. e.path = Current.path /\ e.route = route
    BY <2>1, <2>3, CallRouted
  <2>5. route.prefix \in Seq(Tokens) /\ PathMatchesPrefix(Current.path, route.prefix)
    BY <1>3, FoundRouteMatches
  <2> QED
    BY <1>1, <2>2, <2>3, <2>4, <2>5, PathLastChanges DEF Placed
<1> QED
  BY <1>2, <1>3 DEF LookUp

\* What the current call sends on is its own path or what strip_prefix leaves.
LEMMA OnwardPath ==
  ASSUME HopInv, PathInv, calls # <<>>, Current.stage \in {"routed", "sent"}
  PROVE  ForwardedPath(Current.path, Current.route) \in Seq(Tokens)
<1>1. Depth \in 1..Len(calls) /\ Current = calls[Depth]
  BY LastIsCall DEF Current
<1>2. /\ Current.path \in Seq(Tokens) /\ Current.route.prefix \in Seq(Tokens)
      /\ PathMatchesPrefix(Current.path, Current.route.prefix)
  BY <1>1 DEF PathInv
<1> QED
  BY <1>2, ForwardedIsPath

LEMMA ConnectKeepsPaths == ASSUME HopInv, PathInv, Connect PROVE PathInv'
<1>1. calls # <<>> /\ Current.stage = "routed"
  BY DEF Connect, At
<1>2. /\ Chain(calls) /\ Depth \in 1..Len(calls) /\ Depth = Len(calls)
      /\ WellFormed(Current) /\ Current = calls[Depth]
  BY <1>1, LastIsCall DEF Current
<1>3. PICK e : e = SentOn(Current)
  OBVIOUS
<1>4. e.path = Current.path /\ e.route = Current.route /\ e.stage = "sent"
  BY <1>2, <1>3, CallSent
<1>5. Placed(e)
  BY <1>1, <1>2, <1>4 DEF PathInv, Placed
<1>6. Sent = Put(calls, Depth, e)
  BY <1>2, <1>3, ChainIsFunction DEF Sent, Put, SentOn
<1>7. CASE calls' = Sent
  BY <1>1, <1>4, <1>5, <1>6, <1>7, PathLastChanges
<1>8. CASE Answer("502")
  BY <1>1, <1>8, AnswerKeepsPaths
<1>9. CASE calls' = Append(Sent, Forwarded)
  <2>1. /\ Chain(Sent) /\ Len(Sent) = Len(calls)
        /\ \A i \in 1..Len(calls) : Sent[i] = IF i = Depth THEN e ELSE calls[i]
    BY <1>2, <1>6, ChainReplaced
  <2>2. \A i \in 1..Len(Sent) :
          Sent[i].path = calls[i].path /\ Sent[i].route = calls[i].route /\ Placed(Sent[i])
    BY <1>2, <1>4, <1>5, <2>1, PathInvOf
  <2>3. Forwarded.path \in Seq(Tokens)
    BY <1>1, OnwardPath, ForwardedCall
  <2> QED
    BY <1>1, <1>9, <2>1, <2>2, <2>3, ForwardedCall, PathAdded
<1> QED
  BY <1>7, <1>8, <1>9 DEF Connect

LEMMA AppSendsOnKeepsPaths == ASSUME HopInv, PathInv, AppSendsOn PROVE PathInv'
<1>1. calls # <<>> /\ Current.stage = "sent"
  BY DEF AppSendsOn, At
<1>2. PICK host : calls' = Append(calls, [Forwarded EXCEPT !.host = host])
  BY DEF AppSendsOn
<1>3. PICK e : e = [Forwarded EXCEPT !.host = host]
  OBVIOUS
<1>4. e.stage = "head" /\ e.path = ForwardedPath(Current.path, Current.route)
  BY <1>3, ForwardedCall DEF WellFormed
<1>5. e.path \in Seq(Tokens)
  BY <1>1, <1>4, OnwardPath
<1>6. Chain(calls) /\ \A i \in 1..Len(calls) : Placed(calls[i])
  BY <1>1, LastIsCall, PathInvOf
<1> QED
  BY <1>1, <1>2, <1>3, <1>4, <1>5, <1>6, PathAdded

LEMMA PassBackKeepsPaths == ASSUME HopInv, PathInv, PassBack PROVE PathInv'
<1>1. calls # <<>>
  BY DEF PassBack, At
<1>2. Chain(calls) /\ Depth \in 1..Len(calls) /\ Depth = Len(calls) /\ Len(calls) \in Nat
  BY <1>1, LastIsCall, LenProperties DEF Chain
<1>3. CASE Depth = 1
  <2>1. calls' = <<>>
    BY <1>3 DEF PassBack
  <2>2. Len(calls') = 0
    BY <2>1, EmptySeq
  <2>3. 1..Len(calls') = {}
    BY <2>2
  <2> QED
    BY <2>3 DEF PathInv
<1>4. CASE Depth # 1
  <2> DEFINE s == SubSeq(calls, 1, Len(calls) - 1)
             n == Len(calls) - 1
  <2>1. /\ Chain(s) /\ Len(s) = n /\ n \in 1..Len(s)
        /\ \A i \in 1..n : s[i] = calls[i]
    BY <1>2, <1>4, ChainShortened
  <2>2. PICK e : e = Answered(s[n], Current.status)
    OBVIOUS
  <2>3. \A i \in 1..n : i \in 1..Len(calls) /\ (i > 1 => i - 1 \in 1..n /\ i - 1 # n)
    BY <1>2
  <2>4. e.path = calls[n].path /\ e.route = calls[n].route /\ e.stage = "answered"
    <3>1. n \in 1..n /\ n \in 1..Len(calls)
      BY <2>1, <2>3
    <3>2. s[n] = calls[n] /\ WellFormed(calls[n])
      BY <2>1, <3>1 DEF HopInv, ChainInv
    <3> HIDE DEF s, n
    <3>3. WellFormed(s[n])
      BY <3>2
    <3>4. e.path = s[n].path /\ e.route = s[n].route /\ e.stage = "answered"
      BY <2>2, <3>3, CallAnswered
    <3> QED
      BY <3>2, <3>4
  <2>5. calls' = Put(s, n, e)
    <3>1. calls' = [s EXCEPT ![n].stage = "answered", ![n].status = Current.status]
      BY <1>2, <1>4 DEF PassBack
    <3> HIDE DEF s, n
    <3> QED
      BY <2>1, <2>2, <3>1, ChainIsFunction DEF Put, Answered
  <2> HIDE DEF s, n
  <2>6. /\ Len(calls') = n
        /\ \A i \in 1..n : calls'[i] = IF i = n THEN e ELSE calls[i]
    <3>1. /\ Len(calls') = Len(s)
          /\ \A i \in 1..Len(s) : calls'[i] = IF i = n THEN e ELSE s[i]
      BY <2>1, <2>5, ChainReplaced
    <3> QED
      BY <2>1, <3>1
  <2>7. ASSUME NEW i \in 1..n
        PROVE  /\ calls'[i].path \in Seq(Tokens) /\ Placed(calls'[i])
               /\ i > 1 => calls'[i].path = ForwardedPath(calls'[i - 1].path, calls'[i - 1].route)
    <3>1. calls'[i].path = calls[i].path /\ Placed(calls'[i])
      BY <2>3, <2>4, <2>6, PathInvOf DEF Placed
    <3>2. i > 1 => calls'[i - 1] = calls[i - 1]
      BY <2>3, <2>6
    <3> QED
      BY <2>3, <3>1, <3>2, PathInvOf
  <2> QED
    BY <2>6, <2>7 DEF PathInv, Placed
<1> QED
  BY <1>3, <1>4

LEMMA ClientRequestHasPath == ASSUME ClientRequest PROVE PathInv'
<1>1. PICK q \in Requests : calls' = <<Call(q.host, q.path, <<>>, q.upgrade)>>
  BY DEF ClientRequest
<1>2. PICK e : e = Call(q.host, q.path, <<>>, q.upgrade)
  OBVIOUS
<1>3. e.stage = "head" /\ e.path = q.path /\ q.path \in Seq(Tokens)
  BY <1>2, NewCall, RequestsAssumption
<1>4. calls' = <<e>> /\ Len(<<e>>) = 1 /\ <<e>>[1] = e
  BY <1>1, <1>2
<1>5. Len(calls') = 1 /\ calls'[1] = e
  BY <1>4
<1>6. \A i \in 1..Len(calls') : i = 1
  BY <1>5
<1> QED
  BY <1>3, <1>5, <1>6 DEF PathInv

Tabled == cache \in Tables

LEMMA CacheIsTable == Spec => []Tabled
<1>1. Init => Tabled
  BY DEF Init, Tabled
<1>2. Tabled /\ [Next]_vars => Tabled'
  BY DEF Tabled, Next, Handle, ClientRequest, MissingHost, LoopDetected, LookUp, Connect, PassBack,
         AppAnswers, AppFails, AppSendsOn, PollerStores, AppStartsOrStops, vars
<1> QED
  BY <1>1, <1>2, PTL DEF Spec

LEMMA PathStep == HopInv /\ Tabled /\ PathInv /\ [Next]_vars => PathInv'
<1> SUFFICES ASSUME HopInv, cache \in Tables, PathInv, [Next]_vars PROVE PathInv'
  BY DEF Tabled
<1>1. CASE ClientRequest
  BY <1>1, ClientRequestHasPath
<1>2. CASE MissingHost
  BY <1>2, AnswerKeepsPaths DEF MissingHost, At
<1>3. CASE LoopDetected
  BY <1>3, AnswerKeepsPaths DEF LoopDetected, At
<1>4. CASE LookUp
  BY <1>4, LookUpKeepsPaths
<1>5. CASE Connect
  BY <1>5, ConnectKeepsPaths
<1>6. CASE PassBack
  BY <1>6, PassBackKeepsPaths
<1>7. CASE AppAnswers
  BY <1>7, AnswerKeepsPaths DEF AppAnswers, At
<1>8. CASE AppFails
  BY <1>8, AnswerKeepsPaths DEF AppFails, At
<1>9. CASE AppSendsOn
  BY <1>9, AppSendsOnKeepsPaths
<1>10. CASE UNCHANGED calls
  BY <1>10 DEF PathInv
<1> QED
  BY <1>1, <1>2, <1>3, <1>4, <1>5, <1>6, <1>7, <1>8, <1>9, <1>10
  DEF Next, Handle, PollerStores, AppStartsOrStops, vars

-------------------------------------------------------------------------------

\* A request that comes by again has the path that was asked for, less the mounts
\* of the routes with strip_prefix on its way: at every length of chain, for all
\* tables, prefixes in any spelling and whatever the cache becomes meanwhile.
THEOREM MountPointsAreStripped == Spec => []StripsTheMountPoint
<1>1. Init => PathInv
  <2> SUFFICES ASSUME Init PROVE PathInv
    OBVIOUS
  <2>1. Len(calls) = 0
    BY EmptySeq DEF Init
  <2>2. 1..Len(calls) = {}
    BY <2>1
  <2> QED
    BY <2>2 DEF PathInv
<1>2. HopInv /\ PathInv => StripsTheMountPoint
  <2> SUFFICES ASSUME HopInv, PathInv, NEW i \in 1..(Depth - 1)
               PROVE  LET path   == calls[i].path
                          onward == calls[i + 1].path
                          route  == calls[i].route
                          mount  == NormalizePathPrefix(route.prefix)
                      IN  IF route.strip /\ route.prefix # Root
                            THEN path = mount \o onward \/ (path = mount /\ onward = Root)
                            ELSE onward = path
    BY DEF StripsTheMountPoint
  <2>1. Depth = Len(calls) /\ Len(calls) \in Nat
    BY LenProperties DEF HopInv, ChainInv, Depth
  <2>2. i \in 1..Len(calls) /\ i < Depth /\ i + 1 \in 1..Len(calls) /\ i + 1 > 1 /\ (i + 1) - 1 = i
    BY <2>1
  <2>3. calls[i].stage = "sent"
    BY <2>2 DEF HopInv, StageInv
  <2>4. /\ calls[i].path \in Seq(Tokens) /\ calls[i].route.prefix \in Seq(Tokens)
        /\ PathMatchesPrefix(calls[i].path, calls[i].route.prefix)
    BY <2>2, <2>3 DEF PathInv
  <2>5. calls[i + 1].path = ForwardedPath(calls[i].path, calls[i].route)
    BY <2>2, PathInvOf
  <2> QED
    BY <2>4, <2>5, StripOfMatch DEF ForwardedPath
<1> QED
  BY <1>1, <1>2, PathStep, HopInvariant, CacheIsTable, PTL DEF Spec

\* For any tables and domains: a route is reached under its own address, whatever
\* else is mounted under its name and in whatever order, unless what matches its
\* hostname has another name or a prefix that is not in its normal form.
THEOREM MountsAreServed == Spec => []MountIsServed
<1>1. Tabled => MountIsServed
  BY OwnMount DEF Tabled, MountIsServed, OwnAddress
<1> QED
  BY <1>1, CacheIsTable, PTL

\* For any domains, below one another or not, and any tables: hostnames that have
\* the same name lead to the same route, unless one that is named for a domain
\* itself matches either of them.
THEOREM AliasesLeadTheSameWay == Spec => []AliasesAgree
<1>1. Tabled => AliasesAgree
  <2> SUFFICES ASSUME Tabled, NEW q \in Requests, NEW i \in DOMAIN Domains,
                      NEW name, name = StripDomainSuffix(q.host, Domains),
                      NEW alias, alias = name \o Domains[i],
                      name # <<>>, StripDomainSuffix(alias, Domains) = name,
                      \A j \in Candidates(q.host, q.path, cache, Domains)
                                \cup Candidates(alias, q.path, cache, Domains) :
                        ~HoldsDomain(cache[j].host)
               PROVE  FindRoute(alias, q.path, cache, Domains)
                        = FindRoute(q.host, q.path, cache, Domains)
    BY DEF AliasesAgree
  <2>1. q.host \in Seq(Labels)
    BY RequestsAssumption
  <2>2. alias \in Seq(Labels)
    BY <2>1, NameOfHost, DomainType, ConcatEndsIn
  <2> QED
    BY <2>1, <2>2, SameRoute DEF Tabled
<1> QED
  BY <1>1, CacheIsTable, PTL

-------------------------------------------------------------------------------
(* The poller                                                               *)

LEMMA PollerInitInv == PollerInit => PollerInv
<1> SUFFICES ASSUME PollerInit PROVE PollerInv
  OBVIOUS
<1>1. 0 \in Stamps /\ 1 \in Stamps
  BY MaxClockAssumption DEF Stamps
<1>2. PollerTypeOK
  BY <1>1 DEF PollerInit, PollerTypeOK, Routes, Absent
<1>3. StampInv
  BY DEF PollerInit, StampInv, Absent
<1>4. HoldInv
  BY DEF PollerInit, HoldInv
<1> QED
  BY <1>2, <1>3, <1>4 DEF PollerInv

\* The part of the step that concerns types.
LEMMA PollerTypeStep == ASSUME PollerTypeOK, [PollerNext]_pollerVars PROVE PollerTypeOK'
<1> USE MaxClockAssumption DEF PollerTypeOK, Stamps, Absent
<1>1. CASE Truncate
  BY <1>1 DEF Truncate, Stamp, Unnoticed, poller
<1>2. CASE Write
  BY <1>2 DEF Write, Stamp, Unnoticed, poller
<1>3. CASE Tick
  BY <1>3 DEF Tick, disk, poller
<1>4. ASSUME NEW r \in Dynamic, AppExit(r) PROVE PollerTypeOK'
  BY <1>4 DEF AppExit, disk, poller
<1>5. CASE PollerStep
  <2>1. Loaded \in SUBSET Routes
    BY DEF Loaded
  <2> QED
    BY <1>5, <2>1 DEF PollerStep, InitialLoad, TakeBaseline, Look, Load, StoreCache, disk
<1>6. CASE UNCHANGED pollerVars
  BY <1>6 DEF pollerVars
<1> QED
  BY <1>1, <1>2, <1>3, <1>4, <1>5, <1>6 DEF PollerNext

\* No stamp is ahead of the clock.
LEMMA StampStep == ASSUME PollerTypeOK, StampInv, [PollerNext]_pollerVars PROVE StampInv'
<1> USE MaxClockAssumption DEF PollerTypeOK, StampInv, Stamps, Absent
<1>1. CASE Truncate
  BY <1>1 DEF Truncate, Stamp, poller
<1>2. CASE Write
  BY <1>2 DEF Write, Stamp, poller
<1>3. CASE Tick
  BY <1>3 DEF Tick, disk, poller
<1>4. ASSUME NEW r \in Dynamic, AppExit(r) PROVE StampInv'
  BY <1>4 DEF AppExit, disk, poller
<1>5. CASE PollerStep
  <2>1. CASE InitialLoad
    BY <2>1 DEF InitialLoad, disk
  <2>2. CASE TakeBaseline
    BY <2>2 DEF TakeBaseline, disk
  <2>3. CASE Look
    BY <2>3 DEF Look, disk
  <2>4. CASE Load
    BY <2>4 DEF Load, disk
  <2>5. CASE StoreCache
    BY <2>5 DEF StoreCache, disk
  <2> QED
    BY <1>5, <2>1, <2>2, <2>3, <2>4, <2>5 DEF PollerStep
<1>6. CASE UNCHANGED pollerVars
  BY <1>6 DEF pollerVars
<1> QED
  BY <1>1, <1>2, <1>3, <1>4, <1>5, <1>6 DEF PollerNext

\* A load of a file that is not torn yields the table.
LEMMA LoadedIsTable ==
  ASSUME PollerTypeOK, StampInv, text # "torn" PROVE IsTable(Loaded)
  BY DEF PollerTypeOK, StampInv, IsTable, Loaded, Dead, Routes

\* A write that is not missed moves the stamp past what the poller has read.
LEMMA WrittenStamp ==
  ASSUME PollerTypeOK, StampInv, Stamp, poller' = poller, ~missed'
  PROVE  pc # "baseline" /\ (pc # "boot" => seen' # mtime')
  BY DEF Stamp, Unnoticed, poller, PollerTypeOK, Stamps

LEMMA HoldStep == ASSUME PollerTypeOK, StampInv, HoldInv, [PollerNext]_pollerVars PROVE HoldInv'
<1> USE DEF HoldInv
<1>1. CASE Truncate
  BY <1>1 DEF Truncate
<1>2. CASE Write
  <2>1. Stamp /\ poller' = poller
    BY <1>2 DEF Write
  <2> SUFFICES ASSUME ~missed' PROVE HoldInv'
    OBVIOUS
  <2>2. pc # "baseline" /\ (pc # "boot" => seen' # mtime')
    BY <2>1, WrittenStamp
  <2> QED
    BY <2>1, <2>2 DEF poller
<1>3. CASE Tick
  BY <1>3 DEF Tick, disk, poller, IsTable, Dead
<1>4. ASSUME NEW r \in Dynamic, AppExit(r) PROVE HoldInv'
  BY <1>4 DEF AppExit, disk, poller, IsTable, Dead
<1>5. CASE InitialLoad
  BY <1>5, LoadedIsTable DEF InitialLoad, disk, IsTable, Dead
<1>6. CASE TakeBaseline
  BY <1>6 DEF TakeBaseline, disk, IsTable, Dead
<1>7. CASE Look
  BY <1>7 DEF Look, StampInv, disk, IsTable, Dead
<1>8. CASE Load
  BY <1>8, LoadedIsTable DEF Load, disk, IsTable, Dead
<1>9. CASE StoreCache
  BY <1>9 DEF StoreCache, disk, IsTable, Dead
<1>10. CASE UNCHANGED pollerVars
  BY <1>10 DEF pollerVars, IsTable, Dead
<1> QED
  BY <1>1, <1>2, <1>3, <1>4, <1>5, <1>6, <1>7, <1>8, <1>9, <1>10
     DEF PollerNext, PollerStep

\* The inductive invariant.
LEMMA PollerInductive == PollerSpec => []PollerInv
<1>1. PollerInv /\ [PollerNext]_pollerVars => PollerInv'
  BY PollerTypeStep, StampStep, HoldStep DEF PollerInv
<1> QED
  BY PollerInitInv, <1>1, PTL DEF PollerSpec

\* The cache is the table once the poller has stored it under the stamp the
\* file still has (spawn_route_poller), whatever was written in the meantime
\* and however coarse the clock, but for the two windows of `missed`.
THEOREM PollerIsCurrent == PollerSpec => []CacheIsCurrent
<1>1. PollerInv => CacheIsCurrent
  BY DEF PollerInv, StampInv, HoldInv, CacheIsCurrent
<1> QED
  BY PollerInductive, <1>1, PTL
===============================================================================
