-------------------------- MODULE DispatcherProofs --------------------------
(***************************************************************************)
(* Theorems about Dispatcher, for every batch and every number of          *)
(* connections: the answers match the batch and every element is run once. *)
(*                                                                         *)
(* The argument is the invariant of the loop of dispatch(): of the         *)
(* elements before "next", each that wants an answer has its one, and each *)
(* well-formed call has run; of those from "next" on, none has.            *)
(***************************************************************************)
EXTENDS Dispatcher, SequenceTheorems, TLAPS

(***************************************************************************)
(* The invariant of one connection's loop, by the values of its variables  *)
(***************************************************************************)
\* Of the runs rn one was for the element at i and ended with o.
HasRun(rn, i, o) == \E j \in DOMAIN rn : rn[j].of = i /\ rn[j].outcome = o

\* The answers rs to the elements of b before nx.
AnswersSound(b, nx, rs, rn) ==
    /\ InOrder(rs)
    /\ \A k \in DOMAIN rs :
          /\ rs[k].of \in DOMAIN b.items /\ rs[k].of < nx
          /\ rs[k].id = b.items[rs[k].of].id /\ Wants(b.items[rs[k].of])
          /\ rs[k].answer \in Outcomes => HasRun(rn, rs[k].of, rs[k].answer)
    /\ \A i \in DOMAIN b.items :
          i < nx /\ Wants(b.items[i]) => \E k \in DOMAIN rs : rs[k].of = i

\* A well-formed call of a method in kn.
Callable(r, kn) == r.valid /\ r.object /\ r.method \in kn

\* The handlers rn that have run for them.
RunsSound(b, kn, nx, rn) ==
    /\ InOrder(rn)
    /\ \A j \in DOMAIN rn :
          rn[j].of \in DOMAIN b.items /\ rn[j].of < nx /\ b.items[rn[j].of].valid
    /\ \A i \in DOMAIN b.items :
          i < nx /\ Callable(b.items[i], kn) => \E j \in DOMAIN rn : rn[j].of = i

\* What an HTTP answer means.
Explained(b, rn) ==
    \/ b.kind = "unreadable"
    \/ \E i \in DOMAIN b.items : b.items[i].id = Unfit
    \/ \E j \in DOMAIN rn :
          rn[j].outcome \in {"opaque", "unbuildable"} /\ b.items[rn[j].of].id # None

AnswerSound(b, nx, rn, h) ==
    h # None =>
        /\ h.status \in {200, 204} => nx > Len(b.items)
        /\ h.status = 500 => Explained(b, rn)

\* The request ended with an exception: the list of responses is gone.
Failed(h) == h # None /\ h.status = 500

Served(b, nx, w, h) ==
    w => b # None /\ h = None /\ nx \in DOMAIN b.items /\ b.items[nx].valid

Loop(b, kn, nx, w, rs, rn, h) ==
    /\ Served(b, nx, w, h)
    /\ b = None => nx = 1 /\ rs = <<>> /\ rn = <<>>
    /\ b # None => RunsSound(b, kn, nx, rn) /\ AnswerSound(b, nx, rn, h)
    /\ b # None /\ ~ Failed(h) => AnswersSound(b, nx, rs, rn)

LoopInv ==
    \A c \in Conns :
        /\ Loop(body[c], known[c], next[c], waiting[c], responses[c], ran[c], http[c])
        /\ known[c] \subseteq methods

\* The inductive invariant.
DispatcherInv == DispatcherTypeOK /\ LoopInv

(***************************************************************************)
(* Batches                                                                 *)
(***************************************************************************)

\* A body holds a sequence of requests.
LEMMA BodyHoldsRequests ==
    ASSUME NEW b \in Bodies
    PROVE  b.items \in Seq(Requests) /\ DOMAIN b.items = 1 .. Len(b.items)
<1>1. \A n \in Nat : \A s \in [1 .. n -> Requests] : s \in Seq(Requests)
  BY SeqDef
<1>2. <<>> \in Seq(Requests)
  OBVIOUS
<1>3. b.items = <<>> \/ \E n \in Nat : b.items \in [1 .. n -> Requests]
  <2>1. MaxItems \in Nat
    BY DispatcherAssumption
  <2>2. \/ b.items = <<>> \/ b.items \in [1 .. 1 -> Requests]
        \/ b.items \in UNION {[1 .. k -> Requests] : k \in 1 .. MaxItems}
    BY DEF Bodies
  <2>3. 1 .. MaxItems \subseteq Nat /\ 1 \in Nat
    BY <2>1
  <2> QED  BY ONLY <2>2, <2>3
<1>4. b.items \in Seq(Requests)
  BY <1>1, <1>2, <1>3
<1> QED  BY <1>4

LEMMA Positions ==
    ASSUME NEW b \in Bodies
    PROVE  \A i \in DOMAIN b.items : i \in Nat \ {0} /\ b.items[i] \in Requests
<1>1. b.items \in Seq(Requests) /\ DOMAIN b.items = 1 .. Len(b.items)
  BY BodyHoldsRequests
<1> QED  BY <1>1

LEMMA RunsOf ==
    ASSUME NEW rn \in Seq(Runs)
    PROVE  \A j \in DOMAIN rn : rn[j] \in Runs /\ rn[j].of \in Nat
<1>1. \A j \in DOMAIN rn : rn[j] \in Runs
  BY LenProperties
<1>2. \A r \in Runs : r.of \in Nat
  BY DEF Runs
<1> QED  BY <1>1, <1>2

LEMMA ResponsesOf ==
    ASSUME NEW rs \in Seq(Responses)
    PROVE  \A k \in DOMAIN rs : rs[k] \in Responses /\ rs[k].of \in Nat
<1>1. \A k \in DOMAIN rs : rs[k] \in Responses
  BY LenProperties
<1>2. \A r \in Responses : r.of \in Nat
  BY DEF Responses
<1> QED  BY <1>1, <1>2

\* An identifier that a response can have.
LEMMA FitIds ==
    ASSUME NEW r \in Requests
    PROVE  /\ r.id # Unfit => r.id \in Ids \cup {None}
           /\ r.valid => r.id # Unfit
           /\ r.valid \in BOOLEAN /\ r.object \in BOOLEAN /\ r.method \in Methods
BY DispatcherAssumption DEF RequestRecords

LEMMA AppendInOrder ==
    ASSUME NEW S, NEW s \in Seq(S), NEW e \in S, InOrder(s),
           \A k \in DOMAIN s : s[k].of \in Nat /\ s[k].of < e.of
    PROVE  InOrder(Append(s, e))
BY DEF InOrder

(***************************************************************************)
(* One turn of the loop                                                    *)
(***************************************************************************)

\* An element's answer is appended if it wants one.
Appended(b, nx, rs, a, new) ==
    new = IF Wants(b.items[nx])
            THEN Append(rs, [of |-> nx, id |-> b.items[nx].id, answer |-> a]) ELSE rs

\* The runs go on.
Extends(rn, new) == \A j \in DOMAIN rn : j \in DOMAIN new /\ new[j] = rn[j]

LEMMA RunsStay ==
    ASSUME NEW rn, NEW new, Extends(rn, new), NEW i, NEW o, HasRun(rn, i, o)
    PROVE  HasRun(new, i, o)
BY DEF Extends, HasRun

LEMMA AnswersTurn ==
    ASSUME NEW b \in Bodies, NEW nx \in DOMAIN b.items, nx \in Nat,
           NEW rs \in Seq(Responses), NEW rn \in Seq(Runs), AnswersSound(b, nx, rs, rn),
           b.items[nx].id # Unfit, NEW a \in Answers, NEW new, Appended(b, nx, rs, a, new),
           NEW ran2 \in Seq(Runs),
           Extends(rn, ran2), a \in Outcomes => HasRun(ran2, nx, a)
    PROVE  new \in Seq(Responses) /\ AnswersSound(b, nx + 1, new, ran2)
<1> DEFINE e == [of |-> nx, id |-> b.items[nx].id, answer |-> a]
<1>1. /\ DOMAIN b.items \subseteq Nat \ {0} /\ nx \in Nat \ {0}
      /\ b.items[nx].id \in Ids \cup {None}
  BY Positions, FitIds
<1>2. e \in Responses /\ e.of = nx /\ e.id = b.items[nx].id /\ e.answer = a
  BY <1>1 DEF Responses
<1>3. \A k \in DOMAIN rs : rs[k] \in Responses /\ rs[k].of \in Nat /\ rs[k].of < nx
  BY ResponsesOf DEF AnswersSound
<1>4. CASE Wants(b.items[nx])
  <2>1. new = Append(rs, e)
    BY <1>4 DEF Appended
  <2> HIDE DEF e
  <2>2. /\ new \in Seq(Responses) /\ DOMAIN new = DOMAIN rs \cup {Len(rs) + 1}
        /\ new[Len(rs) + 1] = e /\ \A k \in DOMAIN rs : new[k] = rs[k]
    BY <1>2, <2>1
  <2>3. InOrder(new)
    BY <1>2, <1>3, <2>1, AppendInOrder DEF AnswersSound
  <2>4. ASSUME NEW k \in DOMAIN new
        PROVE  /\ new[k].of \in DOMAIN b.items /\ new[k].of < nx + 1
               /\ new[k].id = b.items[new[k].of].id /\ Wants(b.items[new[k].of])
               /\ new[k].answer \in Outcomes => HasRun(ran2, new[k].of, new[k].answer)
    <3>1. CASE k = Len(rs) + 1
      <4>1. new[k] = e /\ nx < nx + 1
        BY <1>1, <2>2, <3>1
      <4> QED  BY <1>2, <1>4, <4>1
    <3>2. CASE k \in DOMAIN rs
      <4>1. new[k] = rs[k]
        BY <2>2, <3>2
      <4>2. rs[k].answer \in Outcomes => HasRun(ran2, rs[k].of, rs[k].answer)
        BY <3>2, RunsStay DEF AnswersSound
      <4> QED  BY <1>1, <1>3, <3>2, <4>1, <4>2 DEF AnswersSound
    <3> QED  BY <2>2, <3>1, <3>2
  <2>5. ASSUME NEW i \in DOMAIN b.items, i < nx + 1, Wants(b.items[i])
        PROVE  \E k \in DOMAIN new : new[k].of = i
    <3>1. CASE i = nx
      BY <1>2, <2>2, <3>1
    <3>2. CASE i < nx
      BY <2>2, <2>5, <3>2 DEF AnswersSound
    <3> QED  BY <1>1, <2>5, <3>1, <3>2
  <2> QED  BY <2>2, <2>3, <2>4, <2>5 DEF AnswersSound
<1>5. CASE ~ Wants(b.items[nx])
  <2>1. new = rs
    BY <1>5 DEF Appended
  <2>2. ASSUME NEW k \in DOMAIN rs
        PROVE  /\ rs[k].of < nx + 1
               /\ rs[k].answer \in Outcomes => HasRun(ran2, rs[k].of, rs[k].answer)
    <3>1. rs[k].of < nx + 1
      BY <1>1, <1>3
    <3>2. rs[k].answer \in Outcomes => HasRun(rn, rs[k].of, rs[k].answer)
      BY DEF AnswersSound
    <3> QED  BY <3>1, <3>2, RunsStay
  <2>3. \A i \in DOMAIN b.items :
           i < nx + 1 /\ Wants(b.items[i]) => \E k \in DOMAIN rs : rs[k].of = i
    <3>1. \A i \in DOMAIN b.items : i < nx + 1 => i < nx \/ i = nx
      BY <1>1
    <3> QED  BY <1>5, <3>1 DEF AnswersSound
  <2> QED  BY <2>1, <2>2, <2>3 DEF AnswersSound
<1> QED  BY <1>4, <1>5

\* An element is passed without a run, if it is none that had to run.
LEMMA PassedTurn ==
    ASSUME NEW b \in Bodies, NEW nx \in DOMAIN b.items, nx \in Nat, NEW kn,
           NEW rn \in Seq(Runs), RunsSound(b, kn, nx, rn), ~ Callable(b.items[nx], kn)
    PROVE  RunsSound(b, kn, nx + 1, rn)
<1>1. DOMAIN b.items \subseteq Nat /\ \A j \in DOMAIN rn : rn[j].of \in Nat
  BY Positions, RunsOf
<1>2. \A j \in DOMAIN rn : rn[j].of < nx + 1
  BY <1>1 DEF RunsSound
<1>3. \A i \in DOMAIN b.items :
         i < nx + 1 /\ Callable(b.items[i], kn) => \E j \in DOMAIN rn : rn[j].of = i
  BY <1>1 DEF RunsSound
<1> QED  BY <1>2, <1>3 DEF RunsSound

AppendedRun(nx, rn, outcome, new) == new = Append(rn, [of |-> nx, outcome |-> outcome])

LEMMA RunTurn ==
    ASSUME NEW b \in Bodies, NEW nx \in DOMAIN b.items, nx \in Nat, NEW kn,
           NEW rn \in Seq(Runs), RunsSound(b, kn, nx, rn), b.items[nx].valid,
           NEW outcome \in Outcomes, NEW new, AppendedRun(nx, rn, outcome, new)
    PROVE  /\ new \in Seq(Runs) /\ RunsSound(b, kn, nx + 1, new)
           /\ Extends(rn, new) /\ HasRun(new, nx, outcome)
<1> DEFINE e == [of |-> nx, outcome |-> outcome]
<1>1. /\ DOMAIN b.items \subseteq Nat \ {0} /\ nx \in Nat \ {0}
      /\ \A j \in DOMAIN rn : rn[j].of \in Nat
  BY Positions, RunsOf
<1>2. e \in Runs /\ e.of = nx /\ e.outcome = outcome
  BY <1>1 DEF Runs
<1> HIDE DEF e
<1>3. new = Append(rn, e)
  BY DEF e, AppendedRun
<1>4. /\ new \in Seq(Runs) /\ DOMAIN new = DOMAIN rn \cup {Len(rn) + 1}
      /\ new[Len(rn) + 1] = e /\ \A j \in DOMAIN rn : new[j] = rn[j]
  BY <1>2, <1>3
<1>5. InOrder(new)
  BY <1>1, <1>2, <1>3, AppendInOrder DEF RunsSound
<1>6. \A j \in DOMAIN new :
         new[j].of \in DOMAIN b.items /\ new[j].of < nx + 1 /\ b.items[new[j].of].valid
  BY <1>1, <1>2, <1>4 DEF RunsSound
<1>7. ASSUME NEW i \in DOMAIN b.items, i < nx + 1, Callable(b.items[i], kn)
      PROVE  \E j \in DOMAIN new : new[j].of = i
  <2>1. CASE i = nx
    BY <1>2, <1>4, <2>1
  <2>2. CASE i < nx
    BY <1>4, <1>7, <2>2 DEF RunsSound
  <2> QED  BY <1>1, <1>7, <2>1, <2>2
<1>8. Extends(rn, new) /\ HasRun(new, nx, outcome)
  BY <1>2, <1>4 DEF Extends, HasRun
<1> QED  BY <1>4, <1>5, <1>6, <1>7, <1>8 DEF RunsSound

(***************************************************************************)
(* Steps of one connection                                                 *)
(***************************************************************************)
Frame(c) == <<body[c], known[c], next[c], waiting[c], responses[c], ran[c], http[c]>>

\* Connections share nothing but the methods, which only grow.
LEMMA OthersKeepTheirLoop ==
    ASSUME DispatcherInv, methods \subseteq methods', NEW c \in Conns,
           \A d \in Conns : d # c => Frame(d)' = Frame(d),
           Loop(body'[c], known'[c], next'[c], waiting'[c], responses'[c], ran'[c], http'[c]),
           known'[c] \subseteq methods'
    PROVE  LoopInv'
<1>1. ASSUME NEW d \in Conns, d # c
      PROVE  /\ Loop(body'[d], known'[d], next'[d], waiting'[d], responses'[d], ran'[d], http'[d])
             /\ known'[d] \subseteq methods'
  <2>1. /\ body'[d] = body[d] /\ known'[d] = known[d] /\ next'[d] = next[d]
        /\ waiting'[d] = waiting[d] /\ responses'[d] = responses[d] /\ ran'[d] = ran[d]
        /\ http'[d] = http[d]
    BY <1>1 DEF Frame
  <2>2. /\ Loop(body[d], known[d], next[d], waiting[d], responses[d], ran[d], http[d])
        /\ known[d] \subseteq methods
    BY DEF DispatcherInv, LoopInv
  <2> QED  BY <2>1, <2>2
<1> QED  BY <1>1 DEF LoopInv

\* What is known of a connection with an element to dispatch.
LEMMA OpenElement ==
    ASSUME DispatcherInv, NEW c \in Conns, Open(c), next[c] \in DOMAIN body[c].items
    PROVE  /\ body[c] \in Bodies /\ body[c] # None /\ http[c] = None
           /\ next[c] \in Nat \ {0} /\ Item(c) = body[c].items[next[c]] /\ Item(c) \in Requests
           /\ known[c] \subseteq methods
           /\ responses[c] \in Seq(Responses) /\ ran[c] \in Seq(Runs)
           /\ AnswersSound(body[c], next[c], responses[c], ran[c])
           /\ RunsSound(body[c], known[c], next[c], ran[c])
<1>1. /\ body[c] \in Bodies /\ body[c] # None /\ http[c] = None /\ next[c] \in Nat \ {0}
      /\ responses[c] \in Seq(Responses) /\ ran[c] \in Seq(Runs)
  BY DEF DispatcherInv, DispatcherTypeOK, Open
<1>2. /\ known[c] \subseteq methods
      /\ AnswersSound(body[c], next[c], responses[c], ran[c])
      /\ RunsSound(body[c], known[c], next[c], ran[c])
  BY <1>1 DEF DispatcherInv, LoopInv, Loop, Failed
<1>3. Item(c) = body[c].items[next[c]] /\ Item(c) \in Requests
  BY <1>1, Positions DEF Item
<1> QED  BY <1>1, <1>2, <1>3

\* Respond appends to the responses of its connection only.
LEMMA RespondAppends ==
    ASSUME DispatcherTypeOK, NEW c \in Conns, NEW a, Respond(c, a)
    PROVE  /\ Appended(body[c], next[c], responses[c], a, responses'[c])
           /\ \A d \in Conns : d # c => responses'[d] = responses[d]
           /\ DOMAIN responses' = Conns /\ responses' = [d \in Conns |-> responses'[d]]
BY DEF DispatcherTypeOK, Respond, Appended, Item

LEMMA RefuseStep ==
    ASSUME DispatcherInv, NEW c \in Conns, Refuse(c)
    PROVE  DispatcherInv'
<1> DEFINE b == body[c]
           a == Refusal(Item(c))
<1>0. DispatcherTypeOK
  BY DEF DispatcherInv
<1>1. /\ Open(c) /\ ~ waiting[c] /\ next[c] \in DOMAIN b.items /\ Item(c).id # Unfit
      /\ a # None /\ Respond(c, a)
  BY DEF Refuse, Pending
<1>2. /\ b \in Bodies /\ b # None /\ http[c] = None /\ next[c] \in Nat \ {0}
      /\ Item(c) = b.items[next[c]] /\ known[c] \subseteq methods
      /\ responses[c] \in Seq(Responses) /\ ran[c] \in Seq(Runs)
      /\ AnswersSound(b, next[c], responses[c], ran[c])
      /\ RunsSound(b, known[c], next[c], ran[c])
  BY <1>1, OpenElement
<1>3. a \in Answers \ Outcomes /\ ~ Callable(Item(c), known[c])
  BY <1>1, <1>2 DEF Refusal, Answers, Outcomes, Callable
<1>4. /\ UNCHANGED <<methods, body, known, waiting, ran, http>>
      /\ next' = [next EXCEPT ![c] = @ + 1] /\ next'[c] = next[c] + 1
      /\ \A d \in Conns : d # c => next'[d] = next[d] /\ responses'[d] = responses[d]
      /\ responses' = [d \in Conns |-> responses'[d]]
      /\ Appended(b, next[c], responses[c], a, responses'[c])
  BY <1>0, <1>1, RespondAppends DEF Refuse, DispatcherTypeOK
<1> HIDE DEF a, b
<1>5. /\ responses'[c] \in Seq(Responses)
      /\ AnswersSound(b, next'[c], responses'[c], ran'[c])
  <2>1. Extends(ran[c], ran[c])
    BY DEF Extends
  <2> QED  BY <1>1, <1>2, <1>3, <1>4, <2>1, AnswersTurn
<1>6. RunsSound(b, known'[c], next'[c], ran'[c])
  BY <1>1, <1>2, <1>3, <1>4, PassedTurn
<1>7. DispatcherTypeOK'
  <2>1. \A d \in Conns : responses'[d] \in Seq(Responses)
    BY <1>0, <1>4, <1>5 DEF DispatcherTypeOK
  <2>2. next' \in [Conns -> Nat \ {0}]
    BY <1>0, <1>2, <1>4 DEF DispatcherTypeOK
  <2> QED  BY <1>0, <1>4, <2>1, <2>2 DEF DispatcherTypeOK
<1>8. Loop(body'[c], known'[c], next'[c], waiting'[c], responses'[c], ran'[c], http'[c])
  <2>1. /\ body'[c] = b /\ b # None /\ ~ waiting'[c] /\ http'[c] = None
    BY <1>1, <1>2, <1>4 DEF b
  <2> QED  BY <1>5, <1>6, <2>1 DEF Loop, Served, AnswerSound
<1>9. \A d \in Conns : d # c => Frame(d)' = Frame(d)
  BY <1>4 DEF Frame
<1> QED  BY <1>2, <1>4, <1>7, <1>8, <1>9, OthersKeepTheirLoop DEF DispatcherInv

\* The handler's outcome becomes a response, or nothing.
LEMMA ConcludedTurn ==
    ASSUME DispatcherInv, NEW c \in Conns, Open(c), next[c] \in DOMAIN body[c].items,
           body[c].items[next[c]].valid, NEW outcome \in Outcomes, NEW ran2,
           AppendedRun(next[c], ran[c], outcome, ran2),
           Respond(c, outcome), UNCHANGED http
    PROVE  /\ responses' \in [Conns -> Seq(Responses)]
           /\ \A d \in Conns : d # c => responses'[d] = responses[d]
           /\ AnswersSound(body[c], next[c] + 1, responses'[c], ran2)
<1> DEFINE b == body[c]
           nx == next[c]
           rs == responses[c]
           new == responses'[c]
<1>1. /\ b \in Bodies /\ b.items[nx] \in Requests /\ nx \in Nat
      /\ nx \in DOMAIN b.items /\ b.items[nx].valid /\ AppendedRun(nx, ran[c], outcome, ran2)
      /\ rs \in Seq(Responses) /\ ran[c] \in Seq(Runs)
      /\ AnswersSound(b, nx, rs, ran[c]) /\ RunsSound(b, known[c], nx, ran[c])
  BY OpenElement
<1>2. outcome \in Answers /\ b.items[nx].id # Unfit
  BY <1>1, FitIds DEF Answers
<1>3. /\ \A d \in Conns : d # c => responses'[d] = responses[d]
      /\ responses' = [d \in Conns |-> responses'[d]]
      /\ Appended(b, nx, rs, outcome, new)
  BY RespondAppends DEF DispatcherInv
<1> HIDE DEF b, nx, rs, new
<1>4. ran2 \in Seq(Runs) /\ Extends(ran[c], ran2) /\ HasRun(ran2, nx, outcome)
  BY <1>1, RunTurn
<1>5. new \in Seq(Responses) /\ AnswersSound(b, nx + 1, new, ran2)
  BY <1>1, <1>2, <1>3, <1>4, AnswersTurn
<1>6. \A d \in Conns : responses'[d] \in Seq(Responses)
  BY <1>3, <1>5 DEF DispatcherInv, DispatcherTypeOK, new
<1> QED  BY <1>3, <1>5, <1>6 DEF b, nx, new

LEMMA EndHandlerStep ==
    ASSUME DispatcherInv, NEW c \in Conns, NEW outcome \in Outcomes, EndHandler(c, outcome)
    PROVE  DispatcherInv'
<1> DEFINE b == body[c]
           nx == next[c]
           kn == known[c]
           ran2 == ran'[c]
<1>0. DispatcherTypeOK
  BY DEF DispatcherInv
<1>1. /\ Open(c) /\ nx \in DOMAIN b.items /\ b.items[nx].valid
  BY DEF EndHandler, DispatcherInv, LoopInv, Loop, Served, Open
<1>2. /\ b \in Bodies /\ b # None /\ http[c] = None /\ nx \in Nat \ {0}
      /\ Item(c) = b.items[nx] /\ kn \subseteq methods /\ Item(c) \in Requests
      /\ ran[c] \in Seq(Runs) /\ RunsSound(b, kn, nx, ran[c])
  BY <1>1, OpenElement
<1>3. /\ UNCHANGED <<methods, body, known>>
      /\ next' = [next EXCEPT ![c] = @ + 1] /\ next'[c] = nx + 1
      /\ waiting' = [waiting EXCEPT ![c] = FALSE] /\ ~ waiting'[c]
      /\ ran' = [ran EXCEPT ![c] = Append(@, [of |-> nx, outcome |-> outcome])]
      /\ ran2 = Append(ran[c], [of |-> nx, outcome |-> outcome])
      /\ \A d \in Conns : d # c => /\ next'[d] = next[d] /\ waiting'[d] = waiting[d]
                                   /\ ran'[d] = ran[d]
  BY <1>0 DEF EndHandler, DispatcherTypeOK
<1>4. AppendedRun(nx, ran[c], outcome, ran2)
  BY <1>3 DEF AppendedRun
<1> HIDE DEF b, nx, kn, ran2
<1>5. ran2 \in Seq(Runs) /\ RunsSound(b, kn, nx + 1, ran2) /\ HasRun(ran2, nx, outcome)
  BY <1>1, <1>2, <1>4, RunTurn
<1>6. /\ next' \in [Conns -> Nat \ {0}] /\ waiting' \in [Conns -> BOOLEAN]
      /\ ran' \in [Conns -> Seq(Runs)]
  <2>1. next' \in [Conns -> Nat \ {0}] /\ waiting' \in [Conns -> BOOLEAN]
    BY <1>0, <1>2, <1>3 DEF DispatcherTypeOK
  <2>2. DOMAIN ran' = Conns /\ \A d \in Conns : ran'[d] \in Seq(Runs)
    BY <1>0, <1>3, <1>5 DEF DispatcherTypeOK, ran2
  <2>3. ran' = [d \in Conns |-> ran'[d]]
    BY <1>0, <1>3 DEF DispatcherTypeOK
  <2> QED  BY <2>1, <2>2, <2>3
<1>7. /\ body'[c] = b /\ known'[c] = kn /\ next'[c] = nx + 1 /\ ~ waiting'[c]
      /\ ran'[c] = ran2 /\ b # None
  BY <1>2, <1>3 DEF b, kn, nx, ran2
<1>8. CASE Respond(c, outcome) /\ UNCHANGED http
  <2>1. /\ responses' \in [Conns -> Seq(Responses)]
        /\ \A d \in Conns : d # c => responses'[d] = responses[d]
        /\ AnswersSound(b, nx + 1, responses'[c], ran2)
    BY <1>1, <1>4, <1>8, ConcludedTurn DEF b, nx, ran2
  <2>2. DispatcherTypeOK'
    BY <1>0, <1>3, <1>6, <1>8, <2>1 DEF DispatcherTypeOK
  <2>3. http'[c] = None
    BY <1>2, <1>8
  <2>4. Loop(body'[c], known'[c], next'[c], waiting'[c], responses'[c], ran'[c], http'[c])
    BY <1>5, <1>7, <2>1, <2>3 DEF Loop, Served, AnswerSound
  <2>5. \A d \in Conns : d # c => Frame(d)' = Frame(d)
    BY <1>3, <1>8, <2>1 DEF Frame
  <2> QED  BY <1>2, <1>3, <2>2, <2>4, <2>5, OthersKeepTheirLoop DEF DispatcherInv, kn
<1>9. CASE /\ outcome = "unbuildable" /\ Wants(Item(c)) /\ UNCHANGED responses
           /\ http' = [http EXCEPT ![c] = [status |-> 500, body |-> "none"]]
  <2> DEFINE h == [status |-> 500, body |-> "none"]
  <2>1. h \in HttpAnswers /\ h.status = 500
    BY DEF HttpAnswers
  <2>2. http' = [http EXCEPT ![c] = h]
    BY <1>9
  <2> HIDE DEF h
  <2>3. http'[c] = h /\ \A d \in Conns : d # c => http'[d] = http[d]
    BY <1>0, <2>2 DEF DispatcherTypeOK
  <2>4. DispatcherTypeOK'
    BY <1>0, <1>3, <1>6, <1>9, <2>1, <2>2 DEF DispatcherTypeOK
  <2>5. Explained(b, ran2)
    <3>1. b.items[nx].id # None
      BY <1>1, <1>2, <1>9 DEF Wants, b, nx
    <3> QED  BY <1>5, <1>9, <3>1 DEF Explained, HasRun
  <2>6. Failed(h) /\ AnswerSound(b, nx + 1, ran2, h)
    <3>1. h # None /\ h.status \notin {200, 204}
      BY <2>1, DispatcherAssumption
    <3> QED  BY <2>1, <2>5, <3>1 DEF AnswerSound, Failed
  <2>7. Loop(body'[c], known'[c], next'[c], waiting'[c], responses'[c], ran'[c], http'[c])
    BY <1>5, <1>7, <2>3, <2>6 DEF Loop, Served
  <2>8. \A d \in Conns : d # c => Frame(d)' = Frame(d)
    BY <1>3, <1>9, <2>3 DEF Frame
  <2> QED  BY <1>2, <1>3, <2>4, <2>7, <2>8, OthersKeepTheirLoop DEF DispatcherInv, kn
<1> QED  BY <1>8, <1>9 DEF EndHandler, Conclude

\* An element whose id no response can have ends the request.
LEMMA RefuseUnfitStep ==
    ASSUME DispatcherInv, NEW c \in Conns, RefuseUnfit(c)
    PROVE  DispatcherInv'
<1> DEFINE h == [status |-> 500, body |-> "none"]
<1>0. DispatcherTypeOK
  BY DEF DispatcherInv
<1>1. /\ Open(c) /\ next[c] \in DOMAIN body[c].items /\ ~ waiting[c]
      /\ body[c].items[next[c]].id = Unfit
  BY DEF RefuseUnfit, Pending, Item
<1>2. /\ body[c] \in Bodies /\ body[c] # None /\ known[c] \subseteq methods
      /\ AnswersSound(body[c], next[c], responses[c], ran[c])
      /\ RunsSound(body[c], known[c], next[c], ran[c])
  BY <1>1, OpenElement
<1>3. /\ UNCHANGED <<methods, body, known, next, waiting, responses, ran>>
      /\ http' = [http EXCEPT ![c] = h] /\ h \in HttpAnswers
  BY DEF RefuseUnfit, HttpAnswers
<1>4. DispatcherTypeOK' /\ http'[c] = h /\ \A d \in Conns : d # c => http'[d] = http[d]
  BY <1>0, <1>3 DEF DispatcherTypeOK
<1>5. AnswerSound(body[c], next[c], ran[c], h)
  <2>1. h.status = 500
    OBVIOUS
  <2> HIDE DEF h
  <2>2. h.status \notin {200, 204}
    BY <2>1
  <2>3. Explained(body[c], ran[c])
    BY <1>1 DEF Explained
  <2> QED  BY <2>2, <2>3 DEF AnswerSound
<1> HIDE DEF h
<1>6. Loop(body'[c], known'[c], next'[c], waiting'[c], responses'[c], ran'[c], http'[c])
  BY <1>1, <1>2, <1>3, <1>4, <1>5 DEF Loop, Served
<1>7. \A d \in Conns : d # c => Frame(d)' = Frame(d)
  BY <1>3, <1>4 DEF Frame
<1> QED  BY <1>2, <1>3, <1>4, <1>6, <1>7, OthersKeepTheirLoop DEF DispatcherInv

LEMMA StartHandlerStep ==
    ASSUME DispatcherInv, NEW c \in Conns, StartHandler(c)
    PROVE  DispatcherInv'
<1>0. DispatcherTypeOK
  BY DEF DispatcherInv
<1>1. /\ Open(c) /\ next[c] \in DOMAIN body[c].items /\ Refusal(Item(c)) = None
  BY DEF StartHandler, Pending
<1>2. /\ body[c] \in Bodies /\ body[c] # None /\ known[c] \subseteq methods /\ http[c] = None
      /\ AnswersSound(body[c], next[c], responses[c], ran[c])
      /\ RunsSound(body[c], known[c], next[c], ran[c])
      /\ Item(c) = body[c].items[next[c]]
  BY <1>1, OpenElement
<1>3. Item(c).valid
  BY <1>1, DispatcherAssumption DEF Refusal, Answers
<1>4. /\ UNCHANGED <<methods, body, known, next, responses, ran, http>>
      /\ waiting' = [waiting EXCEPT ![c] = TRUE]
  BY DEF StartHandler
<1>5. DispatcherTypeOK' /\ \A d \in Conns : d # c => waiting'[d] = waiting[d]
  BY <1>0, <1>4 DEF DispatcherTypeOK
<1>6. Loop(body'[c], known'[c], next'[c], waiting'[c], responses'[c], ran'[c], http'[c])
  BY <1>1, <1>2, <1>3, <1>4 DEF Loop, Served, AnswerSound
<1>7. \A d \in Conns : d # c => Frame(d)' = Frame(d)
  BY <1>4, <1>5 DEF Frame
<1> QED  BY <1>2, <1>4, <1>5, <1>6, <1>7, OthersKeepTheirLoop DEF DispatcherInv

\* The answer goes out when all elements are done.
LEMMA SendResponsesStep ==
    ASSUME DispatcherInv, NEW c \in Conns, SendResponses(c)
    PROVE  DispatcherInv'
<1> DEFINE b == body[c]
           h == http'[c]
<1>0. DispatcherTypeOK
  BY DEF DispatcherInv
<1>1. /\ b # None /\ ~ waiting[c] /\ next[c] > Len(b.items) /\ known[c] \subseteq methods
      /\ responses[c] \in Seq(Responses)
      /\ AnswersSound(b, next[c], responses[c], ran[c])
      /\ RunsSound(b, known[c], next[c], ran[c])
  BY DEF SendResponses, Open, DispatcherInv, DispatcherTypeOK, LoopInv, Loop, Failed
<1>2. /\ UNCHANGED <<methods, body, known, next, waiting, responses, ran>>
      /\ DOMAIN http' = Conns /\ \A d \in Conns : d # c => http'[d] = http[d]
      /\ h = IF b.kind = "single" /\ responses[c] = <<>>
                THEN [status |-> 204, body |-> "none"]
              ELSE IF Writable(c) THEN [status |-> 200, body |-> "responses"]
              ELSE [status |-> 500, body |-> "none"]
      /\ http' = [d \in Conns |-> http'[d]]
  <2> DEFINE new == IF b.kind = "single" /\ responses[c] = <<>>
                      THEN [status |-> 204, body |-> "none"]
                    ELSE IF Writable(c) THEN [status |-> 200, body |-> "responses"]
                    ELSE [status |-> 500, body |-> "none"]
  <2>1. /\ UNCHANGED <<methods, body, known, next, waiting, responses, ran>>
        /\ http' = [http EXCEPT ![c] = new]
    BY DEF SendResponses
  <2> HIDE DEF new
  <2>2. h = new /\ DOMAIN http' = Conns /\ \A d \in Conns : d # c => http'[d] = http[d]
    BY <1>0, <2>1 DEF DispatcherTypeOK
  <2>3. http' = [d \in Conns |-> http'[d]]
    BY <1>0, <2>1 DEF DispatcherTypeOK
  <2> QED  BY <2>1, <2>2, <2>3 DEF new
<1>3. h \in HttpAnswers /\ (h.status = 500 => ~ Writable(c))
  BY <1>2 DEF HttpAnswers
<1> HIDE DEF h
<1>4. DispatcherTypeOK'
  <2>1. \A d \in Conns : http'[d] \in HttpAnswers \cup {None}
    <3>1. \A d \in Conns : http[d] \in HttpAnswers \cup {None}
      BY <1>0 DEF DispatcherTypeOK
    <3>2. http'[c] \in HttpAnswers
      BY <1>3 DEF h
    <3> QED  BY <1>2, <3>1, <3>2
  <2>2. http' \in [Conns -> HttpAnswers \cup {None}]
    BY <1>2, <2>1
  <2> QED  BY <1>0, <1>2, <2>2 DEF DispatcherTypeOK
<1>5. ASSUME h.status = 500
      PROVE  Explained(b, ran[c])
  <2>1. PICK k \in DOMAIN responses[c] : responses[c][k].answer = "opaque"
    <3>1. ~ Writable(c)
      BY <1>3, <1>5
    <3> QED  BY <3>1 DEF Writable
  <2>2. /\ HasRun(ran[c], responses[c][k].of, "opaque")
        /\ Wants(b.items[responses[c][k].of])
    BY <1>1, <2>1 DEF AnswersSound, Outcomes
  <2>3. PICK j \in DOMAIN ran[c] :
           ran[c][j].of = responses[c][k].of /\ ran[c][j].outcome = "opaque"
    BY <2>2 DEF HasRun
  <2>4. b.items[ran[c][j].of].valid
    BY <1>1 DEF RunsSound
  <2>5. b.items[ran[c][j].of].id # None
    BY <2>2, <2>3, <2>4 DEF Wants
  <2> QED  BY <2>3, <2>5 DEF Explained
<1>6. AnswerSound(b, next[c], ran[c], h)
  BY <1>1, <1>5 DEF AnswerSound
<1>7. Loop(body'[c], known'[c], next'[c], waiting'[c], responses'[c], ran'[c], http'[c])
  BY <1>1, <1>2, <1>6 DEF Loop, Served, h
<1>8. \A d \in Conns : d # c => Frame(d)' = Frame(d)
  BY <1>2 DEF Frame
<1> QED  BY <1>1, <1>2, <1>4, <1>7, <1>8, OthersKeepTheirLoop DEF DispatcherInv

\* A request starts with nothing done.
LEMMA ReceiveStep ==
    ASSUME DispatcherInv, NEW c \in Conns, NEW b \in Bodies, Receive(c, b)
    PROVE  DispatcherInv'
<1> DEFINE h == AtOnce(b)
<1>0. DispatcherTypeOK
  BY DEF DispatcherInv
<1>1. /\ body[c] = None /\ ~ waiting[c] /\ next[c] = 1 /\ responses[c] = <<>> /\ ran[c] = <<>>
  BY DEF Receive, DispatcherInv, LoopInv, Loop, Served
<1>2. b # None /\ \A i \in DOMAIN b.items : i \in Nat \ {0} /\ b.items[i] \in Requests
  BY Positions, DispatcherAssumption
<1>3. /\ h \in HttpAnswers \cup {None}
      /\ h # None => /\ h.status \in {200, 500}
                     /\ h.status = 200 => b.items = <<>>
                     /\ h.status = 500 => b.kind = "unreadable"
  <2>1. b.kind = "garbage" => b.items = <<>>
    BY DEF Bodies
  <2>2. CASE b.kind = "unreadable"
    <3>1. h = [status |-> 500, body |-> "none"]
      BY <2>2 DEF AtOnce
    <3>2. h.status = 500 /\ h \in HttpAnswers
      BY <3>1 DEF HttpAnswers
    <3> QED  BY <2>2, <3>2
  <2>3. CASE b.kind = "garbage"
    <3>1. h = [status |-> 200, body |-> "parse_error"]
      <4>1. b.kind # "unreadable"
        BY <2>3
      <4> QED  BY <2>3, <4>1, Zenon DEF AtOnce
    <3>2. h.status = 200 /\ h \in HttpAnswers
      BY <3>1 DEF HttpAnswers
    <3> QED  BY <2>1, <2>3, <3>2
  <2>4. CASE b.kind = "batch" /\ b.items = <<>>
    <3>1. h = [status |-> 200, body |-> "empty_batch"]
      <4>1. b.kind # "unreadable" /\ b.kind # "garbage"
        BY <2>4
      <4> QED  BY <2>4, <4>1, Zenon DEF AtOnce
    <3>2. h.status = 200 /\ h \in HttpAnswers
      BY <3>1 DEF HttpAnswers
    <3> QED  BY <2>4, <3>2
  <2>5. CASE /\ b.kind # "unreadable" /\ b.kind # "garbage"
             /\ ~ (b.kind = "batch" /\ b.items = <<>>)
    <3>1. h = None
      BY <2>5, Zenon DEF AtOnce
    <3> QED  BY <3>1
  <2> QED  BY <2>2, <2>3, <2>4, <2>5
<1> HIDE DEF h
<1>4. /\ UNCHANGED <<methods, next, waiting, responses, ran>>
      /\ body' = [body EXCEPT ![c] = b] /\ known' = [known EXCEPT ![c] = methods]
      /\ http' = [http EXCEPT ![c] = h]
  BY DEF Receive, h
<1>5. /\ DispatcherTypeOK' /\ body'[c] = b /\ known'[c] = methods /\ http'[c] = h
      /\ \A d \in Conns : d # c => /\ body'[d] = body[d] /\ known'[d] = known[d]
                                   /\ http'[d] = http[d]
  BY <1>0, <1>3, <1>4 DEF DispatcherTypeOK
<1>6. AnswersSound(b, 1, <<>>, <<>>) /\ RunsSound(b, methods, 1, <<>>)
  BY <1>2 DEF AnswersSound, RunsSound, InOrder
<1>7. AnswerSound(b, 1, <<>>, h)
  <2>1. h # None /\ h.status = 200 => 1 > Len(b.items)
    BY <1>3
  <2>2. h # None /\ h.status = 500 => Explained(b, <<>>)
    BY <1>3 DEF Explained
  <2>3. h # None => h.status # 204
    BY <1>3
  <2> QED  BY <2>1, <2>2, <2>3 DEF AnswerSound
<1>8. Loop(body'[c], known'[c], next'[c], waiting'[c], responses'[c], ran'[c], http'[c])
  BY <1>1, <1>2, <1>4, <1>5, <1>6, <1>7 DEF Loop, Served
<1>9. \A d \in Conns : d # c => Frame(d)' = Frame(d)
  BY <1>4, <1>5 DEF Frame
<1> QED  BY <1>4, <1>5, <1>8, <1>9, OthersKeepTheirLoop DEF DispatcherInv

LEMMA CloseStep ==
    ASSUME DispatcherInv, NEW c \in Conns, Close(c)
    PROVE  DispatcherInv'
<1>0. DispatcherTypeOK
  BY DEF DispatcherInv
<1>1. ~ waiting[c]
  BY DEF Close, DispatcherInv, LoopInv, Loop, Served
<1>2. /\ body'[c] = None /\ known'[c] = {} /\ next'[c] = 1 /\ responses'[c] = <<>>
      /\ ran'[c] = <<>> /\ http'[c] = None /\ UNCHANGED <<methods, waiting>>
  BY <1>0 DEF Close, DispatcherTypeOK
<1>3. \A d \in Conns : d # c => Frame(d)' = Frame(d)
  BY <1>0 DEF Close, DispatcherTypeOK, Frame
<1>4. DispatcherTypeOK'
  BY <1>0 DEF Close, DispatcherTypeOK
<1>5. Loop(body'[c], known'[c], next'[c], waiting'[c], responses'[c], ran'[c], http'[c])
  BY <1>1, <1>2 DEF Loop, Served
<1> QED  BY <1>2, <1>3, <1>4, <1>5, OthersKeepTheirLoop DEF DispatcherInv

LEMMA RegisterMethodStep ==
    ASSUME DispatcherInv, NEW m \in Methods, RegisterMethod(m)
    PROVE  DispatcherInv'
BY DEF DispatcherInv, DispatcherTypeOK, LoopInv, RegisterMethod

\* What the invariant says of a connection with a request.
LEMMA LoopState ==
    ASSUME DispatcherInv, NEW c \in Conns, body[c] # None
    PROVE  /\ body[c] \in Bodies /\ ran[c] \in Seq(Runs) /\ next[c] \in Nat
           /\ ~ Failed(http[c]) => AnswersSound(body[c], next[c], responses[c], ran[c])
           /\ RunsSound(body[c], known[c], next[c], ran[c])
           /\ AnswerSound(body[c], next[c], ran[c], http[c])
           /\ Answered(c, 200) \/ Answered(c, 204) => next[c] > Len(body[c].items)
<1>1. body[c] \in Bodies /\ ran[c] \in Seq(Runs) /\ next[c] \in Nat
  BY DEF DispatcherInv, DispatcherTypeOK
<1>2. Loop(body[c], known[c], next[c], waiting[c], responses[c], ran[c], http[c])
  BY DEF DispatcherInv, LoopInv
<1>3. AnswerSound(body[c], next[c], ran[c], http[c])
  BY <1>2 DEF Loop
<1>4. Answered(c, 200) \/ Answered(c, 204) => next[c] > Len(body[c].items)
  <2>1. Answered(c, 200) \/ Answered(c, 204) => http[c] # None /\ http[c].status \in {200, 204}
    BY DEF Answered
  <2>2. http[c] # None /\ http[c].status \in {200, 204} => next[c] > Len(body[c].items)
    BY <1>3 DEF AnswerSound
  <2> QED  BY <2>1, <2>2
<1> QED  BY <1>1, <1>2, <1>3, <1>4 DEF Loop

(***************************************************************************)
(* The theorems                                                            *)
(***************************************************************************)
LEMMA DispatcherInvariant == DispatcherSpec => []DispatcherInv
<1>1. DispatcherInit => DispatcherInv
  <2> SUFFICES ASSUME DispatcherInit PROVE DispatcherInv
    OBVIOUS
  <2>1. DispatcherTypeOK
    BY DEF DispatcherInit, DispatcherTypeOK
  <2>2. LoopInv
    BY DEF DispatcherInit, LoopInv, Loop, Served
  <2> QED  BY <2>1, <2>2 DEF DispatcherInv
<1>2. DispatcherInv /\ [DispatcherNext]_dispatcherVars => DispatcherInv'
  <2> SUFFICES ASSUME DispatcherInv, [DispatcherNext]_dispatcherVars PROVE DispatcherInv'
    OBVIOUS
  <2>1. CASE UNCHANGED dispatcherVars
    BY <2>1 DEF DispatcherInv, DispatcherTypeOK, LoopInv, dispatcherVars
  <2>2. CASE DispatcherNext
    BY <2>2, RegisterMethodStep, RefuseStep, RefuseUnfitStep, StartHandlerStep, EndHandlerStep,
       SendResponsesStep, ReceiveStep, CloseStep DEF DispatcherNext, Serve
  <2> QED  BY <2>1, <2>2
<1> QED  BY <1>1, <1>2, PTL DEF DispatcherSpec

\* Frames of rpc_endpoint keep their types.
THEOREM DispatcherTypeCorrect == DispatcherSpec => []DispatcherTypeOK
<1>1. DispatcherInv => DispatcherTypeOK
  BY DEF DispatcherInv
<1> QED  BY <1>1, DispatcherInvariant, PTL

\* dispatch: a list of responses answers its batch, element by element.
THEOREM AnswersMatchTheBatch == DispatcherSpec => []AnswersMatch
<1>1. DispatcherInv => AnswersMatch
  <2> SUFFICES ASSUME DispatcherInv, NEW c \in Conns, Answered(c, 200),
                      http[c].body = "responses"
               PROVE  /\ InOrder(responses[c])
                      /\ \A k \in DOMAIN responses[c] :
                            LET r == responses[c][k] IN
                            /\ r.of \in DOMAIN body[c].items /\ r.id = body[c].items[r.of].id
                            /\ r.answer \in Outcomes =>
                                  [of |-> r.of, outcome |-> r.answer]
                                     \in {ran[c][j] : j \in DOMAIN ran[c]}
                      /\ \A i \in DOMAIN body[c].items :
                            Wants(body[c].items[i])
                              <=> \E k \in DOMAIN responses[c] : responses[c][k].of = i
    BY DEF AnswersMatch
  <2>1. /\ body[c] \in Bodies /\ ran[c] \in Seq(Runs) /\ next[c] \in Nat
        /\ AnswersSound(body[c], next[c], responses[c], ran[c])
        /\ next[c] > Len(body[c].items)
    <3>1. body[c] # None /\ ~ Failed(http[c])
      BY DEF Answered, Failed
    <3> QED  BY <3>1, LoopState
  <2>2. \A i \in DOMAIN body[c].items : i < next[c]
    BY <2>1, BodyHoldsRequests
  <2>3. ASSUME NEW i, NEW o, HasRun(ran[c], i, o)
        PROVE  [of |-> i, outcome |-> o] \in {ran[c][j] : j \in DOMAIN ran[c]}
    <3>1. PICK j \in DOMAIN ran[c] : ran[c][j].of = i /\ ran[c][j].outcome = o
      BY <2>3 DEF HasRun
    <3>2. ran[c][j] \in Runs
      BY <2>1, RunsOf
    <3>3. ran[c][j] = [of |-> i, outcome |-> o]
      BY <3>1, <3>2 DEF Runs
    <3> QED  BY <3>3
  <2>4. \A k \in DOMAIN responses[c] :
           /\ responses[c][k].of \in DOMAIN body[c].items
           /\ responses[c][k].id = body[c].items[responses[c][k].of].id
           /\ Wants(body[c].items[responses[c][k].of])
           /\ responses[c][k].answer \in Outcomes =>
                 HasRun(ran[c], responses[c][k].of, responses[c][k].answer)
    BY <2>1 DEF AnswersSound
  <2>5. InOrder(responses[c])
    BY <2>1 DEF AnswersSound
  <2>6. \A i \in DOMAIN body[c].items :
           Wants(body[c].items[i]) => \E k \in DOMAIN responses[c] : responses[c][k].of = i
    BY <2>1, <2>2 DEF AnswersSound
  <2> QED  BY <2>3, <2>4, <2>5, <2>6
<1> QED  BY <1>1, DispatcherInvariant, PTL

\* dispatch and _dispatch_one: each call of the batch runs once, whatever fails.
THEOREM ElementsRunOnce == DispatcherSpec => []EachRunsOnce
<1>1. DispatcherInv => EachRunsOnce
  <2> SUFFICES ASSUME DispatcherInv, NEW c \in Conns
               PROVE  /\ InOrder(ran[c])
                      /\ Answered(c, 200) \/ Answered(c, 204) =>
                            \A i \in DOMAIN body[c].items :
                               Callable(body[c].items[i], known[c]) =>
                                  \E j \in DOMAIN ran[c] : ran[c][j].of = i
    BY DEF EachRunsOnce, Callable
  <2>1. CASE body[c] = None
    BY <2>1 DEF DispatcherInv, LoopInv, Loop, InOrder, Answered
  <2>2. CASE body[c] # None
    <3>1. /\ body[c] \in Bodies /\ next[c] \in Nat
          /\ RunsSound(body[c], known[c], next[c], ran[c])
          /\ Answered(c, 200) \/ Answered(c, 204) => next[c] > Len(body[c].items)
      BY <2>2, LoopState
    <3>2. ASSUME Answered(c, 200) \/ Answered(c, 204)
          PROVE  \A i \in DOMAIN body[c].items : i < next[c]
      <4>1. next[c] > Len(body[c].items) /\ body[c].items \in Seq(Requests)
        BY <3>1, <3>2, BodyHoldsRequests
      <4> QED  BY <3>1, <4>1
    <3> QED  BY <3>1, <3>2 DEF RunsSound
  <2> QED  BY <2>1, <2>2
<1> QED  BY <1>1, DispatcherInvariant, PTL

\* rpc_endpoint: what an HTTP 500 comes from.
THEOREM ServerErrorsAreExplained == DispatcherSpec => []FailuresAreExplained
<1>1. DispatcherInv => FailuresAreExplained
  <2> SUFFICES ASSUME DispatcherInv, NEW c \in Conns, Answered(c, 500)
               PROVE  \/ body[c].kind = "unreadable"
                      \/ \E i \in DOMAIN body[c].items : body[c].items[i].id = Unfit
                      \/ \E j \in DOMAIN ran[c] :
                            /\ ran[c][j].outcome \in {"opaque", "unbuildable"}
                            /\ body[c].items[ran[c][j].of].id # None
    BY DEF FailuresAreExplained
  <2>1. body[c] # None /\ http[c] # None /\ http[c].status = 500
    BY DEF Answered
  <2>2. AnswerSound(body[c], next[c], ran[c], http[c])
    BY <2>1, LoopState
  <2>3. Explained(body[c], ran[c])
    BY <2>1, <2>2 DEF AnswerSound
  <2> QED  BY <2>3, Zenon DEF Explained
<1> QED  BY <1>1, DispatcherInvariant, PTL

(***************************************************************************)
(* Every turn brings the answer nearer                                     *)
(***************************************************************************)
\* The loop of dispatch() stops behind the last element.
InBatch == \A c \in Conns : body[c] # None => next[c] =< Len(body[c].items) + 1

LEMMA BatchInvariant == DispatcherSpec => []InBatch
<1>1. DispatcherInit => InBatch
  BY DEF DispatcherInit, InBatch
<1>2. DispatcherInv /\ InBatch /\ [DispatcherNext]_dispatcherVars => InBatch'
  <2> SUFFICES ASSUME DispatcherInv, InBatch, [DispatcherNext]_dispatcherVars,
                      NEW c \in Conns, body'[c] # None
               PROVE  next'[c] =< Len(body'[c].items) + 1
    BY DEF InBatch
  <2>0. /\ body \in [Conns -> Bodies \cup {None}] /\ next \in [Conns -> Nat \ {0}]
        /\ body[c] # None => next[c] =< Len(body[c].items) + 1
        /\ \A b \in Bodies : Len(b.items) \in Nat /\ DOMAIN b.items = 1 .. Len(b.items)
    BY BodyHoldsRequests, LenProperties DEF DispatcherInv, DispatcherTypeOK, InBatch
  <2>1. CASE UNCHANGED <<body[c], next[c]>>
    BY <2>0, <2>1
  <2>2. ASSUME NEW d \in Conns, body' = body, next[d] \in DOMAIN body[d].items,
               body[d] # None, next' = [next EXCEPT ![d] = @ + 1]
        PROVE  next'[c] =< Len(body'[c].items) + 1
    BY <2>0, <2>2
  <2>3. ASSUME NEW d \in Conns, Refuse(d)
        PROVE  next'[c] =< Len(body'[c].items) + 1
    BY <2>2, <2>3 DEF Refuse, Pending, Open
  <2>4. ASSUME NEW d \in Conns, NEW outcome \in Outcomes, EndHandler(d, outcome)
        PROVE  next'[c] =< Len(body'[c].items) + 1
    <3>1. body[d] # None /\ next[d] \in DOMAIN body[d].items
      BY <2>4 DEF EndHandler, DispatcherInv, LoopInv, Loop, Served
    <3> QED  BY <2>2, <2>4, <3>1 DEF EndHandler
  <2>5. ASSUME NEW d \in Conns, NEW b \in Bodies, Receive(d, b)
        PROVE  next'[c] =< Len(body'[c].items) + 1
    <3>1. body'[d] = b /\ next' = next /\ next[d] = 1 /\ \A e \in Conns : e # d => body'[e] = body[e]
      BY <2>0, <2>5 DEF Receive, DispatcherInv, LoopInv, Loop
    <3> QED  BY <2>0, <3>1
  <2>6. ASSUME NEW d \in Conns, Close(d)
        PROVE  next'[c] =< Len(body'[c].items) + 1
    BY <2>0, <2>6 DEF Close
  <2>7. ASSUME \/ UNCHANGED dispatcherVars
               \/ \E m \in Methods : RegisterMethod(m)
               \/ \E d \in Conns : RefuseUnfit(d) \/ StartHandler(d) \/ SendResponses(d)
        PROVE  next'[c] =< Len(body'[c].items) + 1
    BY <2>1, <2>7
    DEF dispatcherVars, RegisterMethod, RefuseUnfit, StartHandler, SendResponses
  <2> QED
    BY <2>3, <2>4, <2>5, <2>6, <2>7 DEF DispatcherNext, Serve
<1> QED  BY <1>1, <1>2, DispatcherInvariant, PTL DEF DispatcherSpec

\* The turns a request still needs: two for each element that is called, one for
\* one that is refused at once, and one to send what there is.
TurnsLeft(c) ==
    2 * (Len(body[c].items) - next[c]) + (IF waiting[c] THEN 2 ELSE 3)

\* A turn of an open request ends it or leaves it fewer turns, of no more than two
\* for each element and one; what is not its turn does not touch it.
TurnsCount ==
    \A c \in Conns :
        Open(c) =>
            /\ TurnsLeft(c) \in 1 .. 2 * Len(body[c].items) + 1
            /\ IF Serve(c) THEN ~ Open(c)' \/ TurnsLeft(c)' < TurnsLeft(c)
               ELSE Frame(c)' = Frame(c)

\* No element, failed handler or other connection can keep dispatch() in its loop:
\* a request is answered after a bounded number of its own turns, each of which it
\* gets as long as the handlers return.
THEOREM ServingIsBounded == DispatcherSpec => [][TurnsCount]_dispatcherVars
<1>1. DispatcherInv /\ InBatch /\ [DispatcherNext]_dispatcherVars => [TurnsCount]_dispatcherVars
  <2> SUFFICES ASSUME DispatcherInv, InBatch, DispatcherNext, NEW c \in Conns, Open(c)
               PROVE  /\ TurnsLeft(c) \in 1 .. 2 * Len(body[c].items) + 1
                      /\ Serve(c) => ~ Open(c)' \/ TurnsLeft(c)' < TurnsLeft(c)
                      /\ ~ Serve(c) => Frame(c)' = Frame(c)
    BY DEF TurnsCount
  <2>0. /\ DispatcherTypeOK /\ body[c] \in Bodies /\ body[c] # None /\ http[c] = None
        /\ next[c] \in Nat \ {0} /\ next[c] =< Len(body[c].items) + 1
        /\ Len(body[c].items) \in Nat /\ DOMAIN body[c].items = 1 .. Len(body[c].items)
        /\ waiting[c] => next[c] =< Len(body[c].items)
    <3>1. body[c] \in Bodies /\ body[c] # None /\ DispatcherTypeOK
      BY DEF Open, DispatcherInv, DispatcherTypeOK
    <3>2. Len(body[c].items) \in Nat /\ DOMAIN body[c].items = 1 .. Len(body[c].items)
      BY <3>1, BodyHoldsRequests, LenProperties
    <3>3. waiting[c] => next[c] \in DOMAIN body[c].items
      BY DEF DispatcherInv, LoopInv, Loop, Served
    <3> QED  BY <3>1, <3>2, <3>3 DEF InBatch, DispatcherTypeOK, Open
  <2>1. TurnsLeft(c) \in 1 .. 2 * Len(body[c].items) + 1
    <3>1. \A l \in Nat, n \in Nat \ {0} :
             /\ n =< l => 2 * (l - n) + 2 \in 1 .. 2 * l + 1
             /\ n =< l + 1 => 2 * (l - n) + 3 \in 1 .. 2 * l + 1
      OBVIOUS
    <3> QED  BY <2>0, <3>1 DEF TurnsLeft
  <2>2. ASSUME RefuseUnfit(c) \/ SendResponses(c)
        PROVE  ~ Open(c)'
    <3>1. http'[c] # None
      <4>1. http'[c] \in {[status |-> 500, body |-> "none"], [status |-> 204, body |-> "none"],
                          [status |-> 200, body |-> "responses"]}
        BY <2>0, <2>2 DEF RefuseUnfit, SendResponses, DispatcherTypeOK
      <4>2. http'[c] \in HttpAnswers
        BY <4>1 DEF HttpAnswers
      <4> QED  BY <4>2, DispatcherAssumption
    <3> QED  BY <3>1 DEF Open
  <2>3. ASSUME \/ Refuse(c) \/ \E outcome \in Outcomes : EndHandler(c, outcome)
        PROVE  TurnsLeft(c)' < TurnsLeft(c)
    <3>1. next'[c] = next[c] + 1 /\ ~ waiting'[c] /\ body'[c] = body[c]
      BY <2>0, <2>3 DEF Refuse, Pending, EndHandler, DispatcherTypeOK
    <3> QED  BY <2>0, <3>1 DEF TurnsLeft
  <2>4. ASSUME StartHandler(c)
        PROVE  TurnsLeft(c)' < TurnsLeft(c)
    <3>1. next'[c] = next[c] /\ waiting'[c] /\ ~ waiting[c] /\ body'[c] = body[c]
      BY <2>0, <2>4 DEF StartHandler, Pending, DispatcherTypeOK
    <3> QED  BY <2>0, <3>1 DEF TurnsLeft
  <2>5. Serve(c) => ~ Open(c)' \/ TurnsLeft(c)' < TurnsLeft(c)
    BY <2>2, <2>3, <2>4 DEF Serve
  <2>6. ASSUME ~ Serve(c)
        PROVE  Frame(c)' = Frame(c)
    <3>1. ASSUME NEW d \in Conns, d # c, Refuse(d) \/ \E outcome \in Outcomes : EndHandler(d, outcome)
          PROVE  Frame(c)' = Frame(c)
      <4>1. responses'[c] = responses[c] /\ http'[c] = http[c]
        <5>1. CASE \E a : Respond(d, a) /\ UNCHANGED http
          BY <3>1, <5>1, <2>0, RespondAppends
        <5>2. CASE UNCHANGED responses /\ http' = [http EXCEPT ![d] = [status |-> 500, body |-> "none"]]
          BY <3>1, <5>2, <2>0 DEF DispatcherTypeOK
        <5>3. Refuse(d) => \E a : Respond(d, a) /\ UNCHANGED http
          BY DEF Refuse
        <5> QED  BY <3>1, <5>1, <5>2, <5>3 DEF EndHandler, Conclude
      <4>2. /\ next'[c] = next[c] /\ waiting'[c] = waiting[c] /\ ran'[c] = ran[c]
            /\ UNCHANGED <<body, known>>
        BY <2>0, <3>1 DEF Refuse, EndHandler, DispatcherTypeOK
      <4> QED  BY <4>1, <4>2 DEF Frame
    <3>2. ASSUME NEW d \in Conns, d # c, RefuseUnfit(d) \/ StartHandler(d) \/ SendResponses(d)
          PROVE  Frame(c)' = Frame(c)
      <4>1. /\ http'[c] = http[c] /\ waiting'[c] = waiting[c]
            /\ UNCHANGED <<body, known, next, responses, ran>>
        BY <2>0, <3>2 DEF RefuseUnfit, StartHandler, SendResponses, DispatcherTypeOK
      <4> QED  BY <4>1 DEF Frame
    <3>3. ASSUME NEW d \in Conns, Close(d) \/ \E b \in Bodies : Receive(d, b)
          PROVE  Frame(c)' = Frame(c)
      <4>1. d # c
        BY <2>0, <3>3 DEF Close, Receive
      <4>2. /\ body'[c] = body[c] /\ known'[c] = known[c] /\ next'[c] = next[c]
            /\ responses'[c] = responses[c] /\ ran'[c] = ran[c] /\ http'[c] = http[c]
            /\ waiting' = waiting
        BY <2>0, <3>3, <4>1 DEF Close, Receive, DispatcherTypeOK
      <4> QED  BY <4>2 DEF Frame
    <3>4. ASSUME NEW m \in Methods, RegisterMethod(m)
          PROVE  Frame(c)' = Frame(c)
      BY <3>4 DEF RegisterMethod, Frame
    <3> QED  BY <2>6, <3>1, <3>2, <3>3, <3>4 DEF DispatcherNext, Serve
  <2> QED  BY <2>1, <2>5, <2>6
<1> QED  BY <1>1, DispatcherInvariant, BatchInvariant, PTL DEF DispatcherSpec
=============================================================================
