------------------------------- MODULE NdnFace -------------------------------
(***************************************************************************)
(* The face of an application (face.cpp, impl/face-impl.hpp): what the     *)
(* application calls is posted and runs later in the order of the calls,   *)
(* while packets of the forwarder, answers to commands and timeouts come   *)
(* in between.  Interests of the application and of the forwarder pend in  *)
(* one table.                                                              *)
(***************************************************************************)
EXTENDS Integers, Sequences, FiniteSets, Functions

CONSTANTS
  Names,
  Lifetime,              \* InterestLifetime
  Programs,              \* calls an application makes, in order: [op, id, name, flag]; the
                         \* id is that of the call a handle comes from, or its own
  MaxPackets, MaxTime    \* bounds

VARIABLES
  program, calls,   \* what the application does, and how many calls it made
  posted,      \* what runs next
  pending,     \* m_pendingInterestTable: id -> entry
  filters,     \* m_interestFilterTable
  prefixes,    \* m_registeredPrefixTable: id -> id of its filter or 0
  connected, receiving,   \* the transport
  now,
  nextId,      \* ids that come from no call
  nPackets,
  outcomes,    \* history: id of an Interest -> what became of it
  given,       \* history: id -> to how many handlers it was given
  nacks,       \* history: id -> Nacks for it
  dropped,     \* history: Interests cancelled or removed
  leaving,     \* history: registrations an unregistration began for
  closed       \* history: after a shutdown

faceVars == <<program, calls, posted, pending, filters, prefixes, connected, receiving, now, nextId, nPackets,
              outcomes, given, nacks, dropped, leaving, closed>>

Calls ==
  {"connect", "express", "cancel", "removeAll", "putData", "putNack", "setFilter", "clearFilter",
   "register", "unregister", "shutdown"}

NdnFaceAssumption ==
  /\ {Lifetime, MaxPackets, MaxTime} \subseteq Nat
  /\ Programs \subseteq Seq([op : Calls, id : Nat, name : Names, flag : BOOLEAN])
  /\ \A p \in Programs : \A i \in DOMAIN p :
       IF p[i].op \in {"express", "setFilter", "register"} THEN p[i].id = i ELSE p[i].id \in 0..i

Command == "command"   \* names of the commands to the forwarder
None == [op |-> "none", id |-> 0, name |-> Command, flag |-> FALSE]
Op(op, id, name, flag) == [op |-> op, id |-> id, name |-> name, flag |-> flag]

Init ==
  /\ program \in Programs
  /\ calls = 0
  /\ posted = <<>>
  /\ pending = <<>>
  /\ filters = {}
  /\ prefixes = <<>>
  /\ connected = FALSE
  /\ receiving = FALSE
  /\ now = 0
  /\ nextId = Len(program) + 1
  /\ nPackets = 0
  /\ outcomes = <<>>
  /\ given = <<>>
  /\ nacks = <<>>
  /\ dropped = {}
  /\ leaving = {}
  /\ closed = FALSE

Without(fn, S) == Restrict(fn, DOMAIN fn \ S)
Put(fn, x, y) == [z \in DOMAIN fn \cup {x} |-> IF z = x THEN y ELSE fn[z]]

\* A table that became empty asks, later, whether the transport may pause.
OnEmpty(old, new) ==
  IF DOMAIN old # {} /\ DOMAIN new = {} THEN <<Op("pause", 0, Command, FALSE)>> ELSE <<>>

-------------------------------------------------------------------------------
(* Calls of the application: they post what they do.  registerPrefix and    *)
(* unregister are followed by the command they send.                         *)

ledger == <<outcomes, given, nacks, dropped>>

Call ==
  /\ calls < Len(program)
  /\ posted' = Append(posted, program[calls + 1])
  /\ calls' = calls + 1
  /\ UNCHANGED <<program, pending, filters, prefixes, connected, receiving, now, nextId, nPackets,
                 ledger, leaving, closed>>

-------------------------------------------------------------------------------
(* Interests come in and are answered.                                       *)

\* Handlers of an Interest: filters, and of these only those with loopback for one of
\* the application.
Handlers(origin, n) == {f \in filters : f.name = n /\ (origin = "app" => f.loopback)}

\* recordForwarding: for the forwarder, if the application asks, and per handler.
NotNacked(origin, n) ==
  Cardinality(Handlers(origin, n)) + IF origin = "app" THEN 1 ELSE 0

Pend(i, origin, n, command) ==
  /\ pending' = Put(pending, i, [origin |-> origin, name |-> n, command |-> command,
                                 notNacked |-> NotNacked(origin, n), expiry |-> now + Lifetime])
  /\ given' = Put(given, i,
                  Cardinality(Handlers(origin, n)) + (IF origin = "app" THEN 1 ELSE 0))
  /\ nacks' = Put(nacks, i, 0)
  /\ outcomes' = Put(outcomes, i, <<>>)
  /\ UNCHANGED dropped

Settle(ids, outcome) ==
  outcomes' = [i \in DOMAIN outcomes |-> IF i \in ids THEN Append(outcomes[i], outcome)
                                         ELSE outcomes[i]]

MatchedBy(n) == {i \in DOMAIN pending : pending[i].name = n}
Of(origin, ids) == {i \in ids : pending[i].origin = origin}

\* Whether the transport is there to send: a lost connection is made anew.
Connected == connected' = TRUE /\ receiving' = TRUE

\* satisfyPendingInterests: every match is removed.
Satisfied(n) == MatchedBy(n)

\* Data the application put goes to the forwarder if that waits, or if nobody does.
ForForwarder(n) ==
  Of("forwarder", MatchedBy(n)) # {} \/ Of("app", MatchedBy(n)) = {}

\* nackPendingInterests: one Nack more for each match; those all handlers nacked go.
Nacked(n) == {i \in MatchedBy(n) : pending[i].notNacked <= 1}
OneLess(n) ==
  [i \in DOMAIN pending |-> IF i \in MatchedBy(n)
                            THEN [pending[i] EXCEPT !.notNacked = @ - 1] ELSE pending[i]]
CountNack(n) == nacks' = [i \in DOMAIN nacks |-> nacks[i] + IF i \in MatchedBy(n) THEN 1 ELSE 0]

-------------------------------------------------------------------------------
(* What was posted runs.                                                     *)

Running(op) == posted # <<>> /\ Head(posted).op = op
This == Head(posted)

\* asyncExpressInterest
Express ==
  /\ Running("express")
  /\ Pend(This.id, "app", This.name, None)
  /\ posted' = Tail(posted)
  /\ Connected
  /\ UNCHANGED <<filters, prefixes, now, nextId, nPackets, leaving, closed>>

\* asyncRemovePendingInterest, asyncRemoveAllPendingInterests
RemovePendingInterests ==
  /\ Running("cancel") \/ Running("removeAll")
  /\ LET gone == IF This.op = "cancel" THEN {This.id} ELSE DOMAIN pending
     IN  /\ pending' = Without(pending, gone)
         /\ posted' = Tail(posted) \o OnEmpty(pending, pending')
         /\ dropped' = dropped \cup (gone \cap DOMAIN pending)
  /\ UNCHANGED <<filters, prefixes, connected, receiving, now, nextId, nPackets, outcomes, given,
                 nacks, leaving, closed>>

AsyncPutData ==
  /\ Running("putData")
  /\ pending' = Without(pending, Satisfied(This.name))
  /\ posted' = Tail(posted) \o OnEmpty(pending, pending')
  /\ Settle(MatchedBy(This.name), "data")
  /\ IF ForForwarder(This.name) THEN Connected ELSE UNCHANGED <<connected, receiving>>
  /\ UNCHANGED <<filters, prefixes, now, nextId, nPackets, given, nacks, dropped, leaving, closed>>

\* asyncPutNack
AsyncPutNack ==
  /\ Running("putNack")
  /\ pending' = Without(OneLess(This.name), Nacked(This.name))
  /\ posted' = Tail(posted) \o OnEmpty(pending, pending')
  /\ CountNack(This.name)
  /\ Settle(Nacked(This.name), "nack")
  /\ IF Of("forwarder", Nacked(This.name)) # {} THEN Connected
     ELSE UNCHANGED <<connected, receiving>>
  /\ UNCHANGED <<filters, prefixes, now, nextId, nPackets, given, dropped, leaving, closed>>

\* asyncSetInterestFilter, asyncUnsetInterestFilter
SetFilter ==
  /\ Running("setFilter") \/ Running("clearFilter")
  /\ filters' = IF This.op = "clearFilter" THEN {f \in filters : f.id # This.id}
                ELSE filters \cup {[id |-> This.id, name |-> This.name, loopback |-> This.flag]}
  /\ posted' = Tail(posted)
  /\ UNCHANGED <<pending, prefixes, connected, receiving, now, nextId, nPackets, ledger, leaving,
                 closed>>

\* asyncUnregisterPrefix: the filter goes at once, the prefix with the forwarder's answer;
\* a registration that is not known (yet) is refused.
AsyncUnregisterPrefix ==
  /\ Running("unregister")
  /\ IF This.id \notin DOMAIN prefixes
     THEN /\ posted' = Tail(posted)
          /\ UNCHANGED <<filters, leaving>>
     ELSE /\ filters' = {f \in filters : f.id # prefixes[This.id]}
          /\ leaving' = leaving \cup {This.id}
          /\ posted' = Append(Tail(posted), [This EXCEPT !.op = "unregisterCommand"])
  /\ UNCHANGED <<pending, prefixes, connected, receiving, now, nextId, nPackets, ledger, closed>>

\* The command to register or unregister is expressed.
StartCommand ==
  /\ Running("register") \/ Running("unregisterCommand")
  /\ Pend(nextId, "app", Command, This)
  /\ nextId' = nextId + 1
  /\ posted' = Tail(posted)
  /\ Connected
  /\ UNCHANGED <<filters, prefixes, now, nPackets, leaving, closed>>

\* Mutant: whether the transport may pause is asked of the pending Interests only.
MayPausePending == pending = <<>>

MayPause == pending = <<>> /\ prefixes = <<>>

\* onEmptyPitOrNoRegisteredPrefixes, ensureConnected(false)
Transport ==
  /\ Running("pause") \/ Running("connect")
  /\ posted' = Tail(posted)
  /\ IF This.op = "connect" THEN connected' = TRUE /\ UNCHANGED receiving
     ELSE receiving' = (receiving /\ ~ MayPause) /\ UNCHANGED connected
  /\ UNCHANGED <<pending, filters, prefixes, now, nextId, nPackets, ledger, leaving, closed>>

\* shutdown: the filters stay.
AsyncShutdown ==
  /\ Running("shutdown")
  /\ pending' = <<>>
  /\ prefixes' = <<>>
  /\ posted' = Tail(posted) \o OnEmpty(pending, <<>>) \o OnEmpty(prefixes, <<>>)
  /\ connected' = FALSE /\ receiving' = FALSE
  /\ dropped' = dropped \cup DOMAIN pending
  /\ closed' = TRUE
  /\ UNCHANGED <<filters, now, nextId, nPackets, outcomes, given, nacks, leaving>>

-------------------------------------------------------------------------------
(* Packets of the forwarder (onReceiveElement), and time.                    *)

Receive == connected /\ receiving /\ nPackets < MaxPackets /\ nPackets' = nPackets + 1

\* processIncomingInterest
ReceiveInterest ==
  /\ Receive
  /\ \E n \in Names : Pend(nextId, "forwarder", n, None)
  /\ nextId' = nextId + 1
  /\ UNCHANGED <<posted, filters, prefixes, connected, receiving, now, leaving, closed>>

ReceiveData ==
  /\ Receive
  /\ \E n \in Names :
       /\ pending' = Without(pending, Satisfied(n))
       /\ Settle(MatchedBy(n), "data")
  /\ posted' = posted \o OnEmpty(pending, pending')
  /\ UNCHANGED <<filters, prefixes, connected, receiving, now, nextId, given, nacks, dropped,
                 leaving, closed>>

ReceiveNack ==
  /\ Receive
  /\ \E n \in Names :
       /\ pending' = Without(OneLess(n), Nacked(n))
       /\ CountNack(n)
       /\ Settle(Nacked(n), "nack")
  /\ posted' = posted \o OnEmpty(pending, pending')
  /\ UNCHANGED <<filters, prefixes, connected, receiving, now, nextId, given, dropped, leaving,
                 closed>>

\* The success callbacks of registerPrefix and asyncUnregisterPrefix, called before
\* the Interest of the command leaves the table.
Succeed(command) ==
  IF command.op = "register"
  THEN /\ filters' = IF command.flag
                     THEN filters \cup {[id |-> nextId, name |-> command.name, loopback |-> TRUE]}
                     ELSE filters
       /\ prefixes' = Put(prefixes, command.id, IF command.flag THEN nextId ELSE 0)
       /\ nextId' = nextId + 1
  ELSE prefixes' = Without(prefixes, {command.id}) /\ UNCHANGED <<filters, nextId>>

ReceiveAnswer ==
  /\ Receive
  /\ \E i \in MatchedBy(Command) :
       /\ pending' = Without(pending, {i})
       /\ Settle({i}, "data")
       /\ \/ Succeed(pending[i].command)
          \/ UNCHANGED <<filters, prefixes, nextId>>
  /\ posted' = posted \o OnEmpty(prefixes, prefixes') \o OnEmpty(pending, pending')
  /\ UNCHANGED <<connected, receiving, now, given, nacks, dropped, leaving, closed>>

\* A command that fails this way has failed.
Timeout ==
  \E i \in DOMAIN pending :
    /\ pending[i].expiry <= now
    /\ pending' = Without(pending, {i})
    /\ Settle({i}, "timeout")
    /\ posted' = posted \o OnEmpty(pending, pending')
    /\ UNCHANGED <<filters, prefixes, connected, receiving, now, nextId, nPackets, given, nacks,
                   dropped, leaving, closed>>

Tick ==
  /\ now < MaxTime
  /\ posted = <<>>
  /\ \A i \in DOMAIN pending : now < pending[i].expiry
  /\ now' = now + 1
  /\ UNCHANGED <<posted, pending, filters, prefixes, connected, receiving, nextId, nPackets, ledger,
                 leaving, closed>>

Next ==
  \/ Call
  \/ /\ \/ Express \/ RemovePendingInterests \/ AsyncPutData \/ AsyncPutNack \/ SetFilter
        \/ AsyncUnregisterPrefix \/ StartCommand \/ Transport \/ AsyncShutdown
        \/ ReceiveInterest \/ ReceiveData \/ ReceiveNack \/ ReceiveAnswer \/ Timeout \/ Tick
     /\ UNCHANGED <<program, calls>>

-------------------------------------------------------------------------------
TypeOK ==
  /\ calls \in 0..Len(program)
  /\ DOMAIN pending \subseteq 1..nextId - 1
  /\ \A i \in DOMAIN pending : pending[i].origin \in {"app", "forwarder"}
                               /\ pending[i].expiry \in now..now + Lifetime
  /\ DOMAIN outcomes = DOMAIN given /\ DOMAIN nacks = DOMAIN given
  /\ DOMAIN pending \subseteq DOMAIN outcomes
  /\ connected \in BOOLEAN /\ receiving \in BOOLEAN

(***************************************************************************)
(* What pends has no outcome yet; what does not was cancelled or has       *)
(* exactly one: Data, a timeout, or a Nack once every handler it was given *)
(* to has nacked it, whatever comes between the calls and the moment they  *)
(* run (satisfyPendingInterests, nackPendingInterests).                    *)
(***************************************************************************)
OneOutcome ==
  \A i \in DOMAIN outcomes :
    /\ Len(outcomes[i]) = IF i \in DOMAIN pending \cup dropped THEN 0 ELSE 1
    /\ outcomes[i] = <<"nack">> => nacks[i] >= given[i]

(***************************************************************************)
(* Until a shutdown, a registration made with a filter has it as long as   *)
(* no unregistration began and no longer, and while one is there or an     *)
(* Interest of the application pends the transport is not paused, though   *)
(* it is asked to pause when a table empties and other calls come between. *)
(***************************************************************************)
HandlersKept ==
  ~ closed =>
    /\ \A r \in DOMAIN prefixes : prefixes[r] # 0 =>
         ((\E f \in filters : f.id = prefixes[r]) <=> r \notin leaving)
    /\ DOMAIN prefixes # {} \/ Of("app", DOMAIN pending) # {} => connected /\ receiving
===============================================================================
