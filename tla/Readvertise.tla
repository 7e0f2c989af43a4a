---------------------------- MODULE Readvertise ----------------------------
(***************************************************************************)
(* Readvertising RIB routes to a destination (rib/readvertise): a policy   *)
(* maps a RIB route to the prefix to announce; Readvertise counts the      *)
(* routes behind each announced prefix, sends advertise and withdraw       *)
(* commands, refreshes and retries them; the destination is available      *)
(* while the RIB has a route towards it.                                   *)
(*                                                                         *)
(* A readvertised route is referred to by iterator from the index, from    *)
(* its timer and from the callbacks of commands under way.  Each           *)
(* incarnation of a prefix in m_rrs has a number, so that a callback whose *)
(* readvertised route was erased in the meantime is told apart: what it    *)
(* does is undefined, recorded in rdDangling.                              *)
(***************************************************************************)
EXTENDS Integers, Sequences, SequencesExt, FiniteSets, Bags

CONSTANTS RdRoutes,       \* RIB routes: [name, origin]
          RdPolicy,       \* "client-to-nlsr" or "host-to-gateway"
          RdIdentities,   \* external: names of the identities in the PIB
          RdGateways,     \* RIB names that are a prefix of the command prefix
          RdMaxDelay,     \* RETRY_DELAY_MAX / RETRY_DELAY_MIN
          RdMaxFailures,  \* bound: commands that fail
          RdMaxChanges    \* bound: changes of the RIB

VARIABLES rdRib,        \* RIB routes
          rdGate,       \* gateway entries in the RIB
          rdAvailable,  \* m_isAvailable of the destination
          rrs,          \* m_rrs: prefix -> [id, n, delay, evt]
          routeToRr,    \* m_routeToRr: route -> [prefix, id]
          rdCalls,      \* commands under way: bag of [op, prefix, id]
          rdKnown,      \* external: prefixes the destination has
          rdDangling, rdFailures, rdChanges

rdVars == <<rdRib, rdGate, rdAvailable, rrs, routeToRr, rdCalls, rdKnown,
            rdDangling, rdFailures, rdChanges>>

----------------------------------------------------------------------------
(* The policies: the prefix to announce for a route, or none. *)

clientToNlsr(r) == IF r.origin = "client" THEN {r.name} ELSE {}

\* the shortest identity above the name, a last component "nrd" put aside
hostToGateway(r) ==
    LET Stripped(i) == IF i # << >> /\ i[Len(i)] = "nrd" THEN SubSeq(i, 1, Len(i) - 1) ELSE i
        above == {Stripped(i) : i \in RdIdentities} \cap {SubSeq(r.name, 1, k) : k \in 0..Len(r.name)}
    IN  IF IsPrefix(<<"localhost">>, r.name) \/ r.name = <<"localhop", "nfd">> THEN {}
        ELSE {p \in above : \A q \in above : Len(p) <= Len(q)}

handleNewRoute(r) == IF RdPolicy = "client-to-nlsr" THEN clientToNlsr(r) ELSE hostToGateway(r)

RdPrefixes == UNION {handleNewRoute(r) : r \in RdRoutes}

----------------------------------------------------------------------------
RdWithout(f, x) == [y \in DOMAIN f \ {x} |-> f[y]]
With(f, x, v) == [y \in DOMAIN f \cup {x} |-> IF y = x THEN v ELSE f[y]]

\* an incarnation number nothing refers to any more
FreshId(p) ==
    LET used == {rrs[q].id : q \in DOMAIN rrs \cap {p}}
                \cup {routeToRr[r].id : r \in {r \in DOMAIN routeToRr : routeToRr[r].prefix = p}}
                \cup {c.id : c \in {c \in BagToSet(rdCalls) : c.prefix = p}}
    IN  CHOOSE i \in 0..Cardinality(used) : i \notin used

Call(op, p, id) == SetToBag({[op |-> op, prefix |-> p, id |-> id]})
Refers(c) == c.prefix \in DOMAIN rrs /\ rrs[c.prefix].id = c.id

\* the first half of advertise(): nothing is sent while there is no destination
AdvertiseCalls(p, id) == IF rdAvailable THEN Call("advertise", p, id) ELSE EmptyBag

----------------------------------------------------------------------------
(* Signals from the RIB. *)

ReadvertiseNew_Uncounted(r, p) ==
    LET isNew == p \notin DOMAIN rrs
        rr == IF isNew THEN [id |-> FreshId(p), n |-> 0, delay |-> 0, evt |-> "none"] ELSE rrs[p]
    IN  /\ routeToRr' = With(routeToRr, r, [prefix |-> p, id |-> rr.id])
        /\ IF rr.n > 0
             THEN UNCHANGED <<rrs, rdCalls>>
             ELSE /\ rrs' = With(rrs, p, [rr EXCEPT !.n = 1, !.delay = 1])
                  /\ rdCalls' = rdCalls (+) AdvertiseCalls(p, rr.id)

ReadvertiseNew(r, p) ==
    LET isNew == p \notin DOMAIN rrs
        rr == IF isNew THEN [id |-> FreshId(p), n |-> 0, delay |-> 0, evt |-> "none"] ELSE rrs[p]
    IN  /\ routeToRr' = With(routeToRr, r, [prefix |-> p, id |-> rr.id])
        /\ IF rr.n > 0
             THEN rrs' = [rrs EXCEPT ![p].n = @ + 1] /\ UNCHANGED rdCalls
             ELSE /\ rrs' = With(rrs, p, [rr EXCEPT !.n = 1, !.delay = 1])
                  /\ rdCalls' = rdCalls (+) AdvertiseCalls(p, rr.id)

AfterAddRoute(r) ==
    /\ rdChanges < RdMaxChanges /\ rdChanges' = rdChanges + 1
    /\ r \notin rdRib /\ rdRib' = rdRib \cup {r}
    /\ IF handleNewRoute(r) = {} THEN UNCHANGED <<routeToRr, rrs, rdCalls>>
       ELSE \E p \in handleNewRoute(r) : ReadvertiseNew(r, p)
    /\ UNCHANGED <<rdGate, rdAvailable, rdKnown, rdDangling, rdFailures>>

\* the last route behind a prefix is gone: withdraw it, or forget it at once
\* when there is no destination.  A timer of the prefix is left as it is.
BeforeRemoveRoute(r) ==
    /\ rdChanges < RdMaxChanges /\ rdChanges' = rdChanges + 1
    /\ r \in rdRib /\ rdRib' = rdRib \ {r}
    /\ routeToRr' = RdWithout(routeToRr, r)
    /\ IF r \notin DOMAIN routeToRr THEN UNCHANGED <<rrs, rdCalls, rdDangling>>
       ELSE IF ~Refers(routeToRr[r])
         THEN rdDangling' = TRUE /\ UNCHANGED <<rrs, rdCalls>>
       ELSE LET p == routeToRr[r].prefix
            IN  /\ UNCHANGED rdDangling
                /\ IF rrs[p].n > 1
                     THEN rrs' = [rrs EXCEPT ![p].n = @ - 1] /\ UNCHANGED rdCalls
                   ELSE IF rdAvailable
                     THEN /\ rrs' = [rrs EXCEPT ![p].n = 0, ![p].delay = 1]
                          /\ rdCalls' = rdCalls (+) Call("withdraw", p, rrs[p].id)
                   ELSE rrs' = RdWithout(rrs, p) /\ UNCHANGED rdCalls
    /\ UNCHANGED <<rdGate, rdAvailable, rdKnown, rdFailures>>

\* handleRibInsert and setAvailability(true): everything is advertised (again)
AfterDestinationAvailable(g) ==
    /\ rdChanges < RdMaxChanges /\ rdChanges' = rdChanges + 1
    /\ g \notin rdGate /\ rdGate' = rdGate \cup {g}
    /\ rdAvailable' = TRUE
    /\ IF rdAvailable THEN UNCHANGED <<rrs, rdCalls>>
       ELSE /\ rrs' = [p \in DOMAIN rrs |-> [rrs[p] EXCEPT !.delay = 1]]
            /\ rdCalls' = rdCalls (+) SetToBag({[op |-> "advertise", prefix |-> p, id |-> rrs[p].id] : p \in DOMAIN rrs})
    /\ UNCHANGED <<rdRib, routeToRr, rdKnown, rdDangling, rdFailures>>

\* handleRibErase and setAvailability(false): timers stop, withdrawals under
\* way count as done.  The destination is another program: what it knows stays.
AfterDestinationUnavailable(g) ==
    /\ rdChanges < RdMaxChanges /\ rdChanges' = rdChanges + 1
    /\ g \in rdGate /\ rdGate' = rdGate \ {g}
    /\ rdAvailable' = FALSE
    /\ rrs' = IF ~rdAvailable THEN rrs
              ELSE [p \in {p \in DOMAIN rrs : rrs[p].n > 0} |-> [rrs[p] EXCEPT !.evt = "none"]]
    /\ UNCHANGED <<rdRib, routeToRr, rdCalls, rdKnown, rdDangling, rdFailures>>

----------------------------------------------------------------------------
(* The destination answers, and timers fire. *)

DoubledDelay(delay) == IF 2 * delay < RdMaxDelay THEN 2 * delay ELSE RdMaxDelay

\* a stale iterator is used: anything may happen from here on
Dangles(c) ==
    /\ rdDangling' = (rdDangling \/ ~Refers(c))
    /\ ~Refers(c) => UNCHANGED rrs

AdvertiseSucceeds(c) ==
    /\ c.op = "advertise"
    /\ rdCalls' = rdCalls (-) SetToBag({c})
    /\ rdKnown' = rdKnown \cup {c.prefix}
    /\ Dangles(c)
    /\ Refers(c) => rrs' = [rrs EXCEPT ![c.prefix].delay = 1, ![c.prefix].evt = "advertise"]
    /\ UNCHANGED <<rdRib, rdGate, rdAvailable, routeToRr, rdFailures, rdChanges>>

\* the route is erased whether or not a new RIB route needs it by now
WithdrawSucceeds(c) ==
    /\ c.op = "withdraw"
    /\ rdCalls' = rdCalls (-) SetToBag({c})
    /\ rdKnown' = rdKnown \ {c.prefix}
    /\ Dangles(c)
    /\ Refers(c) => rrs' = RdWithout(rrs, c.prefix)
    /\ UNCHANGED <<rdRib, rdGate, rdAvailable, routeToRr, rdFailures, rdChanges>>
\* mutant: no retry is scheduled
CommandFails_NoRetry(c) ==
    /\ rdFailures < RdMaxFailures /\ rdFailures' = rdFailures + 1
    /\ rdCalls' = rdCalls (-) SetToBag({c})
    /\ Dangles(c)
    /\ Refers(c) => rrs' = [rrs EXCEPT ![c.prefix].delay = DoubledDelay(@)]
    /\ UNCHANGED <<rdRib, rdGate, rdAvailable, routeToRr, rdKnown, rdChanges>>

\* failed or timed out: try the same again after a longer delay
CommandFails(c) ==
    /\ rdFailures < RdMaxFailures /\ rdFailures' = rdFailures + 1
    /\ rdCalls' = rdCalls (-) SetToBag({c})
    /\ Dangles(c)
    /\ Refers(c) => rrs' = [rrs EXCEPT ![c.prefix].delay = DoubledDelay(@), ![c.prefix].evt = c.op]
    /\ UNCHANGED <<rdRib, rdGate, rdAvailable, routeToRr, rdKnown, rdChanges>>

\* the refresh or retry timer: advertise() or withdraw() again
RetryTimer(p) ==
    /\ p \in DOMAIN rrs /\ rrs[p].evt # "none"
    /\ IF rrs[p].evt = "withdraw" /\ ~rdAvailable
         THEN rrs' = RdWithout(rrs, p) /\ UNCHANGED rdCalls
         ELSE /\ rrs' = [rrs EXCEPT ![p].evt = "none"]
              /\ rdCalls' = rdCalls (+) IF rdAvailable THEN Call(rrs[p].evt, p, rrs[p].id) ELSE EmptyBag
    /\ UNCHANGED <<rdRib, rdGate, rdAvailable, routeToRr, rdKnown, rdDangling, rdFailures, rdChanges>>

RdInit ==
    /\ rdRib = {} /\ rdGate = {} /\ rdAvailable = FALSE
    /\ rrs = [p \in {} |-> 0] /\ routeToRr = [r \in {} |-> 0]
    /\ rdCalls = EmptyBag /\ rdKnown = {}
    /\ rdDangling = FALSE /\ rdFailures = 0 /\ rdChanges = 0

RdAnswer(p) ==
    \E c \in BagToSet(rdCalls) : c.prefix = p /\ (AdvertiseSucceeds(c) \/ WithdrawSucceeds(c))

\* nothing is said about the program once it has used a stale iterator
RdNext ==
    /\ ~rdDangling
    /\ \/ \E r \in RdRoutes : AfterAddRoute(r) \/ BeforeRemoveRoute(r)
       \/ \E g \in RdGateways : AfterDestinationAvailable(g) \/ AfterDestinationUnavailable(g)
       \/ \E p \in RdPrefixes : RdAnswer(p) \/ RetryTimer(p)
       \/ \E c \in BagToSet(rdCalls) : CommandFails(c)

----------------------------------------------------------------------------
(* Properties. *)

\* nRibRoutes (readvertised-route.hpp:53) is the number of RIB routes whose
\* index entry leads to this readvertised route, through every interleaving
\* of additions, removals, late answers and changes of the destination: a
\* count that is off would withdraw a prefix still needed, or never.
RrCountsRoutes ==
    \A p \in DOMAIN rrs :
        rrs[p].n = Cardinality({r \in DOMAIN routeToRr : routeToRr[r] = [prefix |-> p, id |-> rrs[p].id]})

\* Once the destination stays available, each needed prefix is known to it
\* in the end, however many commands fail on the way (readvertise.cpp:167-171).
NeededBecomesKnown ==
    \A p \in RdPrefixes : (p \in DOMAIN rrs /\ rdAvailable) ~> (p \in rdKnown \/ ~rdAvailable)

=============================================================================
