------------------------------ MODULE Dispatcher ------------------------------
(***************************************************************************)
(* The JSON-RPC entry point: rpc_endpoint of transport/http_server.py and  *)
(* the Dispatcher of transport/jsonrpc.py, with the handlers abstracted to *)
(* how they end.                                                           *)
(*                                                                         *)
(* The elements of a batch are dispatched one after the other; the only    *)
(* suspension is "await handler(params)".  A request here is what the code *)
(* branches on.  "of", the place in the body of the element a response or  *)
(* a run belongs to, is not on the wire: it is what the properties are     *)
(* stated with.                                                            *)
(***************************************************************************)
EXTENDS Integers, Sequences

CONSTANTS
    Conns,      \* HTTP requests being served at a time
    Methods,    \* method names
    Ids,        \* identifiers a JsonRpcRequest can have: strings and integers
    Unfit,      \* an "id" that JsonRpcResponse refuses: a fraction, a list, an object
    Requests,   \* the elements that may be sent
    MaxItems,   \* bound: elements of a batch
    None

\* valid: JsonRpcRequest accepts it; object: its params are a JSON object.
RequestRecords ==
    [id : Ids \cup {None, Unfit}, valid : BOOLEAN, method : Methods, object : BOOLEAN]

\* What json.loads makes of the body of a POST.  "garbage" is what it refuses with a
\* JSONDecodeError, "unreadable" what it refuses with any other exception: bytes that
\* are no text, nesting or integers beyond its limits.
Bodies ==
    {[kind |-> k, items |-> <<>>] : k \in {"unreadable", "garbage", "batch"}}
      \cup [kind : {"single"}, items : [1 .. 1 -> Requests]]
      \cup [kind : {"batch"}, items : UNION {[1 .. k -> Requests] : k \in 1 .. MaxItems}]

\* How a handler ends: a result, a PolypactError, another exception; or a result or
\* a PolypactError whose answer can be built but not written by json.dumps ("opaque"),
\* or that JsonRpcResponse cannot even take or dump ("unbuildable").
Outcomes == {"result", "domain_error", "internal_error", "opaque", "unbuildable"}

Answers == Outcomes \cup {"invalid_request", "method_not_found", "invalid_params"}

Responses == [of : Nat \ {0}, id : Ids \cup {None}, answer : Answers]

Runs == [of : Nat \ {0}, outcome : Outcomes]

HttpAnswers ==
    [status : {200, 204, 500},
     body : {"parse_error", "empty_batch", "responses", "none"}]

ASSUME DispatcherAssumption ==
    /\ Requests \subseteq RequestRecords
    /\ \A r \in Requests : r.id = Unfit => ~ r.valid
    /\ Unfit \notin Ids /\ None \notin Ids /\ Unfit # None
    /\ MaxItems \in Nat
    /\ None \notin Bodies /\ None \notin HttpAnswers /\ None \notin Answers

VARIABLES
    methods,     \* Dispatcher._handlers: the methods registered so far
    body,        \* the parsed body of the connection's current request
    known,       \* the methods that were registered when it came
    next,        \* the element being dispatched
    waiting,     \* its handler is being awaited
    responses,   \* the list dispatch() has built so far
    ran,         \* the handlers that ended for this request, in order
    http         \* the answer to the request; None while it is open

dispatcherVars == <<methods, body, known, next, waiting, responses, ran, http>>

Open(c) == body[c] # None /\ http[c] = None

Item(c) == body[c].items[next[c]]

Pending(c) == Open(c) /\ ~ waiting[c] /\ next[c] \in DOMAIN body[c].items

(***************************************************************************)
(* Dispatcher                                                              *)
(***************************************************************************)
\* register: a second registration of a method raises.
RegisterMethod(m) ==
    /\ m \notin methods
    /\ methods' = methods \cup {m}
    /\ UNCHANGED <<body, known, next, waiting, responses, ran, http>>

\* An element that is valid but has no id wants no answer; an invalid one has
\* its answer in any case.
Wants(r) == ~ r.valid \/ r.id # None

\* Mutant: every element is answered.
RespondAlways(c, answer) ==
    responses' = [responses EXCEPT ![c] =
        Append(@, [of |-> next[c], id |-> Item(c).id, answer |-> answer])]

\* What _dispatch_one returns, appended unless it is None.
Respond(c, answer) ==
    responses' =
        IF Wants(Item(c))
          THEN [responses EXCEPT ![c] =
                  Append(@, [of |-> next[c], id |-> Item(c).id, answer |-> answer])]
          ELSE responses

\* Mutant: the response is built before the code looks whether one is wanted.
ConcludeBuilding(c, outcome) ==
    IF outcome = "unbuildable"
      THEN /\ http' = [http EXCEPT ![c] = [status |-> 500, body |-> "none"]]
           /\ UNCHANGED responses
      ELSE /\ Respond(c, outcome)
           /\ UNCHANGED http

\* What becomes of the handler's outcome: nothing for a notification, otherwise a
\* response, or an exception that leaves dispatch() and the endpoint, so that what
\* is behind the element in its batch is not reached.
Conclude(c, outcome) ==
    \/ /\ outcome # "unbuildable" \/ ~ Wants(Item(c))
       /\ Respond(c, outcome)
       /\ UNCHANGED http
    \/ /\ outcome = "unbuildable" /\ Wants(Item(c))
       /\ http' = [http EXCEPT ![c] = [status |-> 500, body |-> "none"]]
       /\ UNCHANGED responses

\* Why an element is answered without its handler; None if the handler runs.
Refusal(r) ==
    IF ~ r.valid THEN "invalid_request"
    ELSE IF r.method \notin methods THEN "method_not_found"
    ELSE IF ~ r.object THEN "invalid_params"
    ELSE None

\* Mutant: an element that is refused ends the batch.
RefuseAll(c) ==
    /\ Pending(c) /\ Refusal(Item(c)) # None /\ Item(c).id # Unfit
    /\ Respond(c, Refusal(Item(c)))
    /\ next' = [next EXCEPT ![c] = Len(body[c].items) + 1]
    /\ UNCHANGED <<methods, body, known, waiting, ran, http>>

\* Mutant: the response is built from the raw id without a check.
RefuseUnchecked(c) ==
    /\ Pending(c) /\ Refusal(Item(c)) # None
    /\ Respond(c, Refusal(Item(c)))
    /\ next' = [next EXCEPT ![c] = @ + 1]
    /\ UNCHANGED <<methods, body, known, waiting, ran, http>>

Refuse(c) ==
    /\ Pending(c) /\ Refusal(Item(c)) # None /\ Item(c).id # Unfit
    /\ Respond(c, Refusal(Item(c)))
    /\ next' = [next EXCEPT ![c] = @ + 1]
    /\ UNCHANGED <<methods, body, known, waiting, ran, http>>

\* The error response takes the element's id, which JsonRpcResponse refuses: the
\* exception leaves dispatch() and the endpoint.
RefuseUnfit(c) ==
    /\ Pending(c) /\ Item(c).id = Unfit
    /\ http' = [http EXCEPT ![c] = [status |-> 500, body |-> "none"]]
    /\ UNCHANGED <<methods, body, known, next, waiting, responses, ran>>

StartHandler(c) ==
    /\ Pending(c) /\ Refusal(Item(c)) = None
    /\ waiting' = [waiting EXCEPT ![c] = TRUE]
    /\ UNCHANGED <<methods, body, known, next, responses, ran, http>>

\* Mutant: a handler that fails unexpectedly is tried again.
EndHandlerRetrying(c, outcome) ==
    /\ waiting[c]
    /\ waiting' = [waiting EXCEPT ![c] = FALSE]
    /\ IF outcome = "internal_error"
         THEN UNCHANGED <<ran, next>>
         ELSE /\ ran' = [ran EXCEPT ![c] = Append(@, [of |-> next[c], outcome |-> outcome])]
              /\ next' = [next EXCEPT ![c] = @ + 1]
    /\ IF outcome = "internal_error" THEN UNCHANGED <<responses, http>>
       ELSE Conclude(c, outcome)
    /\ UNCHANGED <<methods, body, known>>

\* The handler returns, or its exception is caught and mapped by code_for.
EndHandler(c, outcome) ==
    /\ waiting[c]
    /\ waiting' = [waiting EXCEPT ![c] = FALSE]
    /\ ran' = [ran EXCEPT ![c] = Append(@, [of |-> next[c], outcome |-> outcome])]
    /\ next' = [next EXCEPT ![c] = @ + 1]
    /\ Conclude(c, outcome)
    /\ UNCHANGED <<methods, body, known>>

(***************************************************************************)
(* rpc_endpoint                                                            *)
(***************************************************************************)
\* What the endpoint answers before dispatching anything, or None.
AtOnce(b) ==
    IF b.kind = "unreadable" THEN [status |-> 500, body |-> "none"]
    ELSE IF b.kind = "garbage" THEN [status |-> 200, body |-> "parse_error"]
    ELSE IF b.kind = "batch" /\ b.items = <<>> THEN [status |-> 200, body |-> "empty_batch"]
    ELSE None

Receive(c, b) ==
    /\ body[c] = None
    /\ body' = [body EXCEPT ![c] = b]
    /\ known' = [known EXCEPT ![c] = methods]
    /\ http' = [http EXCEPT ![c] = AtOnce(b)]
    /\ UNCHANGED <<methods, next, waiting, responses, ran>>

\* json.dumps writes the whole body or raises.
Writable(c) == \A k \in DOMAIN responses[c] : responses[c][k].answer # "opaque"

SendResponses(c) ==
    /\ Open(c) /\ ~ waiting[c] /\ next[c] > Len(body[c].items)
    /\ http' = [http EXCEPT ![c] =
          IF body[c].kind = "single" /\ responses[c] = <<>>
            THEN [status |-> 204, body |-> "none"]
          ELSE IF Writable(c) THEN [status |-> 200, body |-> "responses"]
          ELSE [status |-> 500, body |-> "none"]]
    /\ UNCHANGED <<methods, body, known, next, waiting, responses, ran>>

\* The response is on the wire and the endpoint's frame is gone.
Close(c) ==
    /\ body[c] # None /\ http[c] # None
    /\ body' = [body EXCEPT ![c] = None]
    /\ known' = [known EXCEPT ![c] = {}]
    /\ next' = [next EXCEPT ![c] = 1]
    /\ responses' = [responses EXCEPT ![c] = <<>>]
    /\ ran' = [ran EXCEPT ![c] = <<>>]
    /\ http' = [http EXCEPT ![c] = None]
    /\ UNCHANGED <<methods, waiting>>

DispatcherInit ==
    /\ methods = {}
    /\ body = [c \in Conns |-> None]
    /\ known = [c \in Conns |-> {}]
    /\ next = [c \in Conns |-> 1]
    /\ waiting = [c \in Conns |-> FALSE]
    /\ responses = [c \in Conns |-> <<>>]
    /\ ran = [c \in Conns |-> <<>>]
    /\ http = [c \in Conns |-> None]

Serve(c) ==
    \/ Refuse(c) \/ RefuseUnfit(c) \/ StartHandler(c) \/ SendResponses(c)
    \/ \E outcome \in Outcomes : EndHandler(c, outcome)

DispatcherNext ==
    \/ \E m \in Methods : RegisterMethod(m)
    \/ \E c \in Conns : Serve(c) \/ Close(c) \/ \E b \in Bodies : Receive(c, b)

DispatcherSpec == DispatcherInit /\ [][DispatcherNext]_dispatcherVars

\* The event loop resumes what can run, and handlers return.
FairDispatcherSpec ==
    DispatcherSpec /\ \A c \in Conns : WF_dispatcherVars(Serve(c))

-----------------------------------------------------------------------------
(***************************************************************************)
(* Properties                                                              *)
(***************************************************************************)
\* The state of a connection is one the endpoint's frame can hold.
DispatcherTypeOK ==
    /\ methods \subseteq Methods
    /\ body \in [Conns -> Bodies \cup {None}]
    /\ known \in [Conns -> SUBSET Methods]
    /\ next \in [Conns -> Nat \ {0}]
    /\ waiting \in [Conns -> BOOLEAN]
    /\ responses \in [Conns -> Seq(Responses)]
    /\ ran \in [Conns -> Seq(Runs)]
    /\ http \in [Conns -> HttpAnswers \cup {None}]

InOrder(s) == \A j, k \in DOMAIN s : j < k => s[j].of < s[k].of

Answered(c, status) == body[c] # None /\ http[c] # None /\ http[c].status = status

\* A list of responses matches its batch: in order, with the id of its element,
\* one for each element that wants one and none for a notification, and a result
\* or a handler's error only where that element's own handler ended so.  Nothing
\* of one element shows in the answer to another, whatever failed in between.
AnswersMatch ==
    \A c \in Conns :
        Answered(c, 200) /\ http[c].body = "responses" =>
            /\ InOrder(responses[c])
            /\ \A k \in DOMAIN responses[c] :
                  LET r == responses[c][k] IN
                  /\ r.of \in DOMAIN body[c].items /\ r.id = body[c].items[r.of].id
                  /\ r.answer \in Outcomes =>
                        [of |-> r.of, outcome |-> r.answer] \in {ran[c][j] : j \in DOMAIN ran[c]}
            /\ \A i \in DOMAIN body[c].items :
                  Wants(body[c].items[i]) <=> \E k \in DOMAIN responses[c] : responses[c][k].of = i

\* No element is run twice or out of order, and one that fails stops none behind
\* it: when the answer goes out, each well-formed call of a method that was there
\* when the batch came has run.  dispatch() loops, _dispatch_one catches.
EachRunsOnce ==
    \A c \in Conns :
        /\ InOrder(ran[c])
        /\ Answered(c, 200) \/ Answered(c, 204) =>
              \A i \in DOMAIN body[c].items :
                  LET r == body[c].items[i] IN
                  r.valid /\ r.object /\ r.method \in known[c] =>
                      \E j \in DOMAIN ran[c] : ran[c][j].of = i

\* One element's outcome costs the others their answers only where it must: a
\* server error means a body json.loads cannot read, an id that no response can
\* carry, or a call that wants an answer and whose own handler ended with what no
\* response can carry.  What a notification's handler returns or raises never does.
FailuresAreExplained ==
    \A c \in Conns :
        Answered(c, 500) =>
            \/ body[c].kind = "unreadable"
            \/ \E i \in DOMAIN body[c].items : body[c].items[i].id = Unfit
            \/ \E j \in DOMAIN ran[c] :
                  /\ ran[c][j].outcome \in {"opaque", "unbuildable"}
                  /\ body[c].items[ran[c][j].of].id # None

\* Every request that is received is answered, batches with failing and unknown
\* elements included, as long as the handlers it calls return.
RequestsEnd == \A c \in Conns : Open(c) ~> ~ Open(c)
=============================================================================
