-------------------------- MODULE DevicePlacement --------------------------
(***************************************************************************)
(* Reservations of device memory: resource/placement_controller.py and     *)
(* resource/device_allocator.py, with interfaces/placement.py, the         *)
(* sessions that call it on executor threads, and the coordinator that     *)
(* reconciles their waiting requests (resource_manager.py, coordinator.py).*)
(*                                                                         *)
(* A session executes its sequence of requests.  One that cannot be met    *)
(* now ends the attempt; the session waits, and when it is resumed it      *)
(* starts over, replaying the calls it has already made.  What a session   *)
(* holds are leases: capacity comes back when the last reference to a      *)
(* lease is gone, whose finalizer only queues the reservation's id.        *)
(*                                                                         *)
(* The coordinator reconciles in several steps (pc), between which the     *)
(* executor threads go on reserving and dropping.  Sessions are of         *)
(* different contexts.  An aborted context's session is drained.           *)
(***************************************************************************)
EXTENDS Integers, Sequences, FiniteSets, SequencesExt, Queues

CONSTANTS
    Session,        \* (context, step, iteration, execution): _SessionKey
    Device,         \* ids of the devices of one route, natural numbers
    AnyDevice,      \* PlacementRequest.device_id is None
    CapacityOf,     \* memory_limit_gb of each device, in units
    ExclusiveOnly,  \* the devices with exclusive_only
    Workload,       \* which requests the sessions may make, in which order
    Resource,       \* sessions that set up a resource, which is cached
    RetryLimit,     \* how often the invocation of each session may be retried
    Abortable       \* the sessions whose context may be aborted

Request == [group : Nat, each : Nat, least : Nat \ {0}, most : Nat \ {0},
            preferMost : BOOLEAN, exclusive : BOOLEAN, device : Device \cup {AnyDevice}]

ASSUME ConstantsAssumption ==
    /\ IsFiniteSet(Session) /\ IsFiniteSet(Device)
    /\ Device \subseteq Nat /\ AnyDevice \notin Device
    /\ CapacityOf \in [Device -> Nat \ {0}]
    /\ ExclusiveOnly \subseteq Device
    /\ Workload # {} /\ Workload \subseteq [Session -> Seq(Request)]
    /\ \A w \in Workload : \A s \in Session : \A r \in Range(w[s]) :
          /\ r.least <= r.most
          /\ r.group + r.each > 0 \/ r.exclusive
          /\ r.device = AnyDevice \/ r.most = 1
    /\ Resource \subseteq Session /\ RetryLimit \in [Session -> Nat]
    /\ Abortable \subseteq Session

VARIABLES
    program,  \* the requests of each session
    pool,     \* _placements by reservation id, and each allocator's accounting
    grants,   \* PlacementController._grants: reservation ids by request
    released, \* _released_reservations: ids queued by finalizers
    calls,    \* the reservations in each PlacementInterface._calls
    kept,     \* the reservations whose leases outlive the session, in its outputs
    busy,     \* the cached resources that are pinned or in use
    phase,    \* ExecutionSession.state
    aborted,  \* sessions whose context drains
    retries,  \* how often each session was retried
    pending,  \* RuntimeRegistry._placement_requests, in its order
    wake,     \* whether the coordinator has a message, after which it reconciles
    pc, todo, leaving, ready, revoked \* the reconciliation in progress; leaving is what it unloads

sessionVars == <<calls, kept, busy, phase, retries>>
round == <<todo, leaving, ready, revoked>>
vars == <<program, pool, grants, released, sessionVars, aborted, pending, wake, pc, round>>

Phase == {"IDLE", "DISPATCHED", "REFUSED", "PLACEMENT_WAITING", "FAILED", "FINISHED", "CANCELLED"}
Ended == {"FINISHED", "CANCELLED"}

Total(f, S) == FoldFunctionOnSet(+, 0, f, S)
With(f, x, y) == [z \in DOMAIN f \cup {x} |-> IF z = x THEN y ELSE f[z]]
LexLess(x, y) == x[1] < y[1] \/ (x[1] = y[1] /\ x[2] < y[2])

(***************************************************************************)
(* Which devices can serve a request.                                      *)
(***************************************************************************)
IndexOf(s) == Len(calls[s]) + 1
RequestOf(s) == program[s][IndexOf(s)]

\* PlacementRequest.device_counts and allocation_bytes, the latter largest first.
DeviceCounts(r) ==
    LET n == r.most - r.least + 1
    IN  [k \in 1..n |-> IF r.preferMost THEN r.most - k + 1 ELSE r.least + k - 1]
AllocationBytes(r, n) ==
    [k \in 1..n |-> r.each + (r.group \div n) + (IF k <= r.group % n THEN 1 ELSE 0)]

\* DeviceAllocator.can_satisfy and requires_exclusive.
CanSatisfy(d, r, bytes) == r.device \in {AnyDevice, d} /\ bytes <= CapacityOf[d]
RequiresExclusive(d, r) == d \in ExclusiveOnly \/ r.exclusive

\* The reservations on device d but those of the owners in gone.
On(p, d, gone) ==
    {id \in DOMAIN p.placements :
        d \in DOMAIN p.placements[id].bytes /\ p.placements[id].owner \notin gone}
BytesOn(p, d, ids) == Total([id \in ids |-> p.placements[id].bytes[d]], ids)
ExclusiveOn(p, d, ids) == \E id \in ids : d \in p.placements[id].exclusive

FreeBytes(p, d, gone) ==
    CapacityOf[d] - (IF gone = {} THEN p.reserved[d] ELSE BytesOn(p, d, On(p, d, gone)))

\* By the accounts alone, which do not show an allocation of no bytes.
Accepts_ByAccounts(p, d, r, bytes, gone) ==
    /\ CanSatisfy(d, r, bytes)
    /\ ~p.exclusive[d]
    /\ IF RequiresExclusive(d, r) THEN p.reserved[d] = 0
       ELSE bytes <= CapacityOf[d] - p.reserved[d]

\* _allocator_accepts(available=True): by the accounts when nothing is released
\* and nothing exclusive is asked for, else by the reservations.
Accepts(p, d, r, bytes, gone) ==
    LET there == On(p, d, gone)
    IN  /\ CanSatisfy(d, r, bytes)
        /\ IF gone = {} /\ ~RequiresExclusive(d, r)
           THEN ~p.exclusive[d] /\ bytes <= CapacityOf[d] - p.reserved[d]
           ELSE /\ ~ExclusiveOn(p, d, there)
                /\ IF RequiresExclusive(d, r)
                   THEN there = {}
                   ELSE bytes <= CapacityOf[d] - BytesOn(p, d, there)

\* Best fit: the least room left, then the lowest id.
BestFit(p, candidates, gone) ==
    CHOOSE d \in candidates : \A e \in candidates \ {d} :
        LexLess(<<FreeBytes(p, d, gone), d>>, <<FreeBytes(p, e, gone), e>>)

NoPlan == << >>
FirstOr(none, sequence) == IF sequence = << >> THEN none ELSE Head(sequence)
Complete(plan, n) == IF Cardinality(DOMAIN plan) = n THEN plan ELSE NoPlan

\* The devices left for an allocation of bytes, and the plan with the best of them.
Fitting(p, r, bytes, taken, available, gone) ==
    {d \in Device \ taken : IF available THEN Accepts(p, d, r, bytes, gone) ELSE CanSatisfy(d, r, bytes)}
Assigned(p, plan, candidates, bytes, gone) ==
    IF candidates = {} THEN plan ELSE With(plan, BestFit(p, candidates, gone), bytes)

\* _match_allocators: a device of its own for each allocation, as bytes by
\* device, or NoPlan; each choice is greedy.
Match(p, r, n, available, gone) ==
    LET bytes == AllocationBytes(r, n)
        plan[k \in 0..n] ==
            IF k = 0 THEN << >>
            ELSE Assigned(p, plan[k - 1], Fitting(p, r, bytes[k], DOMAIN plan[k - 1], available, gone),
                          bytes[k], gone)
    IN  Complete(plan[n], n)

\* The plan for the first device count, in the request's order, that has one:
\* _first_structural_plan, and with available the one a reservation takes.
FirstPlan(p, r, available, gone) ==
    LET plans == [k \in DOMAIN DeviceCounts(r) |-> Match(p, r, DeviceCounts(r)[k], available, gone)]
    IN  FirstOr(NoPlan, Without(plans, {NoPlan}))
StructuralPlan(p, r) == FirstPlan(p, r, FALSE, {})

\* _reservation_candidates.
Candidates(p, r) ==
    IF FirstPlan(p, r, TRUE, {}) # NoPlan THEN "SUCCESS"
    ELSE IF StructuralPlan(p, r) # NoPlan THEN "UNAVAILABLE" ELSE "IMPOSSIBLE"

(***************************************************************************)
(* Taking and giving back capacity.                                        *)
(***************************************************************************)
\* Leases somebody still refers to.  A number of _reservation_ids is used
\* again only when nothing refers to it any more.
Leases == UNION {Range(calls[s]) \cup kept[s] : s \in Session}
FreshId(p) ==
    LET used == DOMAIN p.placements \cup Leases \cup released \cup Range(grants)
    IN  CHOOSE id \in 0..Cardinality(used) :
            id \notin used /\ \A n \in 0..(id - 1) : n \in used

\* _create_group with DeviceAllocator.reserve: the plan becomes reservation id.
Allocated(p, id, owner, r, plan) ==
    LET alone == {d \in DOMAIN plan : RequiresExclusive(d, r)}
    IN  [placements |-> With(p.placements, id, [owner |-> owner, bytes |-> plan, exclusive |-> alone]),
         reserved |-> [d \in Device |->
                p.reserved[d] + (IF d \in DOMAIN plan THEN plan[d] ELSE 0)],
         exclusive |-> [d \in Device |->
                IF d \in DOMAIN plan THEN d \in alone ELSE p.exclusive[d]]]

\* _reserve, when Candidates says SUCCESS.
Reserved(p, owner, r) == Allocated(p, FreshId(p), owner, r, FirstPlan(p, r, TRUE, {}))

\* _release_reservation for each of ids that is still there.
Freed(p, ids) ==
    LET gone == ids \cap DOMAIN p.placements
    IN  [placements |-> Restrict(p.placements, DOMAIN p.placements \ gone),
         reserved |-> [d \in Device |->
                p.reserved[d] - BytesOn(p, d, On(p, d, {}) \cap gone)],
         exclusive |-> [d \in Device |->
                p.exclusive[d] /\ ~ExclusiveOn(p, d, On(p, d, {}) \cap gone)]]

\* _collect_released.
Collected == Freed(pool, released)

\* The ids granted to session s, which cancel_context releases.
GrantsOf(s) == {grants[key] : key \in {k \in DOMAIN grants : k[1] = s}}
OtherGrants(sessions) == Restrict(grants, {k \in DOMAIN grants : k[1] \notin sessions})

Init ==
    /\ program \in Workload
    /\ pool = [placements |-> << >>, reserved |-> [d \in Device |-> 0],
               exclusive |-> [d \in Device |-> FALSE]]
    /\ grants = << >> /\ released = {}
    /\ calls = [s \in Session |-> << >>]
    /\ kept = [s \in Session |-> {}] /\ busy = {}
    /\ phase = [s \in Session |-> "IDLE"]
    /\ aborted = {} /\ retries = [s \in Session |-> 0]
    /\ pending = << >> /\ wake = FALSE
    /\ pc = "IDLE" /\ todo = << >> /\ leaving = {} /\ ready = << >> /\ revoked = {}

(***************************************************************************)
(* The sessions, on executor threads.                                      *)
(***************************************************************************)
\* PlacementInterface._clear, or the end of an output: the last references to
\* these leases are gone, their finalizers queue the ids and ask for a
\* reconciliation.
Drop(ids) ==
    /\ released' = released \cup ids
    /\ wake' = (wake \/ ids # {})

Dispatch(s) ==
    /\ pc = "IDLE" /\ phase[s] = "IDLE" /\ s \notin aborted
    /\ phase' = [phase EXCEPT ![s] = "DISPATCHED"]
    /\ UNCHANGED <<program, pool, grants, released, calls, kept, busy, retries, aborted, pending, wake, pc, round>>

\* reserve: the grant for exactly this request, or an attempt of its own.
TakeGrant(s) ==
    LET key == <<s, IndexOf(s)>> IN
    /\ key \in DOMAIN grants
    /\ calls' = [calls EXCEPT ![s] = Append(@, grants[key])]
    /\ grants' = Restrict(grants, DOMAIN grants \ {key})
    /\ UNCHANGED <<pool, phase, released>>

Reserve(s) ==
    /\ phase[s] = "DISPATCHED" /\ IndexOf(s) <= Len(program[s])
    /\ \/ TakeGrant(s)
       \/ /\ <<s, IndexOf(s)>> \notin DOMAIN grants
          /\ released' = {}
          /\ UNCHANGED grants
          /\ \/ /\ Candidates(Collected, RequestOf(s)) = "SUCCESS"
                /\ pool' = Reserved(Collected, s, RequestOf(s))
                /\ calls' = [calls EXCEPT ![s] = Append(@, FreshId(Collected))]
                /\ UNCHANGED phase
             \/ /\ Candidates(Collected, RequestOf(s)) # "SUCCESS"
                /\ pool' = Collected
                /\ phase' = [phase EXCEPT ![s] =
                      IF Candidates(Collected, RequestOf(s)) = "UNAVAILABLE" THEN "REFUSED" ELSE "FAILED"]
                /\ UNCHANGED calls
    /\ UNCHANGED <<program, kept, busy, retries, aborted, pending, wake, pc, round>>

\* The invocation returns; some of its leases stay in its outputs, in a setup's
\* one output at most one.  A draining context keeps no outputs, but adopts what
\* a setup returned.  A resource is cached with a pin.  (finalize clears the calls.)
Finish(s) ==
    /\ phase[s] = "DISPATCHED" /\ IndexOf(s) > Len(program[s])
    /\ \E outputs \in SUBSET Range(calls[s]) :
          /\ IF s \in Resource THEN Cardinality(outputs) <= 1 ELSE s \in aborted => outputs = {}
          /\ kept' = [kept EXCEPT ![s] = outputs]
          /\ busy' = IF s \in Resource /\ outputs # {} THEN busy \cup {s} ELSE busy
          /\ Drop(Range(calls[s]) \ outputs)
    /\ phase' = [phase EXCEPT ![s] = IF s \in aborted THEN "CANCELLED" ELSE "FINISHED"]
    /\ calls' = [calls EXCEPT ![s] = << >>]
    /\ UNCHANGED <<program, pool, grants, retries, aborted, pending, pc, round>>

\* The invocation raises and is retried; what was granted to it stays granted.
Retry(s) ==
    /\ phase[s] = "DISPATCHED" /\ s \notin aborted /\ retries[s] < RetryLimit[s]
    /\ phase' = [phase EXCEPT ![s] = "IDLE"]
    /\ retries' = [retries EXCEPT ![s] = @ + 1]
    /\ calls' = [calls EXCEPT ![s] = << >>]
    /\ Drop(Range(calls[s]))
    /\ UNCHANGED <<program, pool, grants, kept, busy, aborted, pending, pc, round>>

\* An artifact that keeps a lease is given up.
Release(s) ==
    /\ s \notin Resource
    /\ \E id \in kept[s] :
          /\ kept' = [kept EXCEPT ![s] = @ \ {id}]
          /\ Drop({id})
    /\ UNCHANGED <<program, pool, grants, calls, busy, phase, retries, aborted, pending, pc, round>>

(***************************************************************************)
(* The coordinator's handlers, between two reconciliations.                *)
(***************************************************************************)
\* _collect_placement_waiting and register_placement_request.
Collect(s) ==
    /\ pc = "IDLE" /\ phase[s] = "REFUSED" /\ s \notin aborted
    /\ phase' = [phase EXCEPT ![s] = "PLACEMENT_WAITING"]
    /\ pending' = Append(pending, s)
    /\ wake' = TRUE
    /\ UNCHANGED <<program, pool, grants, released, calls, kept, busy, retries, aborted, pc, round>>

\* A context pins a cached resource for its steps, and the last pin is given back.
Pin(s) ==
    /\ pc = "IDLE" /\ s \in Resource \ busy /\ kept[s] # {}
    /\ busy' = busy \cup {s} /\ wake' = TRUE
    /\ UNCHANGED <<program, pool, grants, released, calls, kept, phase, retries, aborted, pending, pc, round>>
Unpin(s) ==
    /\ pc = "IDLE" /\ s \in busy
    /\ busy' = busy \ {s} /\ wake' = TRUE
    /\ UNCHANGED <<program, pool, grants, released, calls, kept, phase, retries, aborted, pending, pc, round>>

\* cancel_context: the grants are released at once and their leases end.
CancelContext(s) ==
    /\ pool' = Freed(Collected, GrantsOf(s))
    /\ grants' = OtherGrants({s})

Abort_KeepsGrants(s) ==
    /\ pc = "IDLE" /\ s \in Abortable \ aborted /\ phase[s] \notin Ended
    /\ aborted' = aborted \cup {s}
    /\ pending' = Without(pending, {s})
    /\ wake' = TRUE
    /\ UNCHANGED <<program, pool, grants, released, sessionVars, pc, round>>

\* abort_context.
Abort(s) ==
    /\ pc = "IDLE" /\ s \in Abortable \ aborted /\ phase[s] \notin Ended
    /\ aborted' = aborted \cup {s}
    /\ pending' = Without(pending, {s})
    /\ CancelContext(s)
    /\ released' = GrantsOf(s)
    /\ wake' = TRUE
    /\ UNCHANGED <<program, sessionVars, pc, round>>

\* The session of a failed or aborted context is drained, and the context is
\* finalized, which cancels once more.
Drain(s) ==
    /\ pc = "IDLE"
    /\ \/ s \in aborted /\ phase[s] \in {"IDLE", "REFUSED", "PLACEMENT_WAITING", "FAILED"}
       \/ phase[s] = "FAILED"
    /\ phase' = [phase EXCEPT ![s] = "CANCELLED"]
    /\ calls' = [calls EXCEPT ![s] = << >>]
    /\ CancelContext(s)
    /\ released' = GrantsOf(s) \cup Range(calls[s])
    /\ wake' = TRUE
    /\ UNCHANGED <<program, kept, busy, retries, aborted, pending, pc, round>>

(***************************************************************************)
(* A reconciliation: resolve what can be met; for each of the others make  *)
(* room by unloading resources and try again; break a cycle of sessions    *)
(* that wait for each other; tell the sessions.                            *)
(***************************************************************************)
\* resolve(requests), in their order.
Granted(s) == <<s, IndexOf(s)>> \in DOMAIN grants
ResolvedOne(former, s) ==
    LET key == <<s, IndexOf(s)>>
    IN  IF key \in DOMAIN former.grants THEN [former EXCEPT !.ready = Append(@, s)]
        ELSE IF Candidates(former.pool, RequestOf(s)) # "SUCCESS" THEN former
        ELSE [pool |-> Reserved(former.pool, s, RequestOf(s)),
              grants |-> With(former.grants, key, FreshId(former.pool)),
              ready |-> Append(former.ready, s)]
Resolution(p, g, requests) ==
    LET upTo[n \in 0..Len(requests)] ==
            IF n = 0 THEN [pool |-> p, grants |-> g, ready |-> << >>]
            ELSE ResolvedOne(upTo[n - 1], requests[n])
    IN  upTo[Len(requests)]

\* What a resolution has met is added to the round.
Settle(outcome) ==
    /\ pool' = outcome.pool /\ grants' = outcome.grants
    /\ ready' = ready \o outcome.ready

Resolve ==
    /\ pc = "IDLE" /\ wake
    /\ wake' = FALSE
    /\ released' = {}
    /\ Settle(Resolution(Collected, grants, pending))
    /\ todo' = Without(pending, Range(ready'))
    /\ pc' = "EVICT"
    /\ UNCHANGED <<program, sessionVars, aborted, pending, leaving, revoked>>

\* eviction_targets: what stands in the way on each device of the first plan.
Targets(p, s) ==
    LET r == RequestOf(s)
        plan == IF Candidates(p, r) = "UNAVAILABLE" THEN StructuralPlan(p, r) ELSE NoPlan
        clear(d) == RequiresExclusive(d, r) \/ ExclusiveOn(p, d, On(p, d, {}))
        missing(d) == plan[d] - (IF p.exclusive[d] THEN 0 ELSE CapacityOf[d] - p.reserved[d])
    IN  {[device |-> d, clear |-> clear(d), bytes |-> IF clear(d) THEN p.reserved[d] ELSE missing(d)] :
            d \in {e \in DOMAIN plan : IF clear(e) THEN On(p, e, {}) # {} ELSE missing(e) > 0}}

\* _plan_target_eviction, for what may be unloaded; the one used least
\* recently may be any of it.
Victims(p, target, unloadable) ==
    LET there == On(p, target.device, {})
    IN  IF target.clear THEN {there} \cap SUBSET unloadable
        ELSE {chosen \in SUBSET (there \cap unloadable) :
                /\ BytesOn(p, target.device, chosen) >= target.bytes
                /\ \E last \in chosen : BytesOn(p, target.device, chosen \ {last}) < target.bytes}
Plans(p, s, unloadable) == UNION {Victims(p, target, unloadable) : target \in Targets(p, s)}
Cached(resources) == UNION {kept[s] : s \in resources}

\* _create_eviction_plan.  Which target is preferred is left open.
Evict ==
    /\ pc = "EVICT" /\ todo # << >>
    /\ pool' = Collected /\ released' = {}
    /\ LET plans == Plans(Collected, Head(todo), Cached(Resource \ busy))
       IN  \/ /\ plans = {}
              /\ todo' = Tail(todo)
              /\ UNCHANGED <<leaving, pc>>
           \/ /\ leaving' \in plans
              /\ pc' = "UNLOAD"
              /\ UNCHANGED todo
    /\ UNCHANGED <<program, grants, sessionVars, aborted, pending, wake, ready, revoked>>

\* unload, which awaits the teardown; then the cache gives up the lease.
Unload ==
    /\ pc = "UNLOAD"
    /\ \E s \in Resource : \E id \in kept[s] \cap leaving :
          /\ kept' = [kept EXCEPT ![s] = @ \ {id}]
          /\ leaving' = leaving \ {id}
          /\ Drop({id})
    /\ UNCHANGED <<program, pool, grants, calls, busy, phase, retries, aborted, pending, pc, todo, ready, revoked>>

\* The request for which room was made is tried again.
ResolveOne ==
    /\ pc = "UNLOAD" /\ leaving = {}
    /\ released' = {}
    /\ Settle(Resolution(Collected, grants, <<Head(todo)>>))
    /\ todo' = Tail(todo)
    /\ pc' = "EVICT"
    /\ UNCHANGED <<program, sessionVars, aborted, pending, wake, leaving, revoked>>

\* _find_wait_cycle.  Waiting is the sequence of unmet requests' sessions.
Holders(p) == {p.placements[id].owner : id \in DOMAIN p.placements}
Blockers(p, s, holders) ==
    LET plan == StructuralPlan(p, RequestOf(s))
        full == {d \in DOMAIN plan : ~Accepts(p, d, RequestOf(s), plan[d], {})}
    IN  {p.placements[id].owner : id \in UNION {On(p, d, {}) : d \in full}} \cap (holders \ {s})

\* t is reached from s along the blockers.
Reaches(blockers, s, t) ==
    \A closed \in SUBSET DOMAIN blockers :
        (s \in closed /\ \A u \in closed : blockers[u] \subseteq closed) => t \in closed

\* The strongly connected sessions of the first one that waits in a cycle.
FirstCycle(blockers, waiting) ==
    LET with(s) == {t \in DOMAIN blockers :
                        s \in DOMAIN blockers /\ Reaches(blockers, s, t) /\ Reaches(blockers, t, s)}
    IN  FirstOr({}, Without([k \in DOMAIN waiting |-> with(waiting[k])],
                            {sessions \in SUBSET DOMAIN blockers : Cardinality(sessions) <= 1}))
Cycle(p, waiting) ==
    LET holders == Range(waiting) \cap Holders(p)
    IN  FirstCycle([s \in holders |-> Blockers(p, s, holders)], waiting)

\* _can_reserve_after_release and _select_victims: for the first session of the
\* cycle that can be served so, those that hold most of its devices.
Benefit(p, s, owner) ==
    LET capable == {d \in Device : RequestOf(s).device \in {AnyDevice, d}}
        bytes(d) == BytesOn(p, d, {id \in On(p, d, {}) : p.placements[id].owner = owner})
    IN  Total([d \in capable |-> bytes(d)], capable)
VictimsFor(p, winner, cycle, waiting) ==
    LET position(s) == CHOOSE k \in DOMAIN waiting : waiting[k] = s
        before(s, t) == LexLess(<<Benefit(p, winner, t), position(t)>>,
                                <<Benefit(p, winner, s), position(s)>>)
        first(s) == {t \in cycle \ {winner} : t = s \/ before(t, s)}
        prefixes == {first(s) : s \in cycle \ {winner}}
        enough == {V \in prefixes : FirstPlan(p, RequestOf(winner), TRUE, V) # NoPlan}
    IN  IF winner \notin cycle \/ enough = {} THEN {}
        ELSE {t \in cycle \ {winner} : \A V \in enough : t \in V}
SelectVictims(p, cycle, waiting) ==
    FirstOr({}, Without([k \in DOMAIN waiting |-> VictimsFor(p, waiting[k], cycle, waiting)], {{}}))

\* The requests that wait: neither met in this round nor granted since.
Unmet == Without(pending, {s \in Range(pending) :
            \/ s \in Range(ready) \/ Granted(s)
            \/ Candidates(Collected, RequestOf(s)) # "UNAVAILABLE"})

\* _revoke_session for the victims; what they held goes to those that wait.
Revoke(victims) ==
    LET ids == {id \in DOMAIN Collected.placements : Collected.placements[id].owner \in victims}
    IN  /\ revoked' = victims
        /\ released' = UNION {GrantsOf(s) : s \in victims}
        /\ Settle(Resolution(Freed(Collected, ids), OtherGrants(victims),
                             IF victims = {} THEN << >>
                             ELSE Without(Unmet, victims)))

\* recover_stuck
Recover ==
    /\ pc = "EVICT" /\ todo = << >>
    /\ Revoke(SelectVictims(Collected, Cycle(Collected, Unmet), Unmet))
    /\ pc' = "TELL"
    /\ UNCHANGED <<program, sessionVars, aborted, pending, wake, todo, leaving>>

\* A revoked session is resumed like one that was granted.
Tell_KeepsCalls ==
    /\ pc = "TELL"
    /\ LET told == Range(ready) \cup revoked
       IN  /\ pending' = Without(pending, told)
           /\ phase' = [s \in Session |-> IF s \in told THEN "IDLE" ELSE phase[s]]
    /\ pc' = "IDLE" /\ todo' = << >> /\ ready' = << >> /\ revoked' = {}
    /\ UNCHANGED <<program, pool, grants, released, calls, kept, busy, leaving, retries, aborted, wake>>

\* What asked for a reconciliation during this one is forgotten.
Tell_ClearsWake ==
    /\ pc = "TELL"
    /\ LET told == Range(ready) \cup revoked
       IN  /\ pending' = Without(pending, told)
           /\ phase' = [s \in Session |-> IF s \in told THEN "IDLE" ELSE phase[s]]
           /\ calls' = [s \in Session |-> IF s \in revoked THEN << >> ELSE calls[s]]
           /\ released' = released \cup UNION {Range(calls[s]) : s \in revoked}
           /\ wake' = FALSE
    /\ pc' = "IDLE" /\ todo' = << >> /\ ready' = << >> /\ revoked' = {}
    /\ UNCHANGED <<program, pool, grants, kept, busy, leaving, retries, aborted>>

\* resolve_placement_requests and revoke_placement_requests, then
\* ExecutionSession.resume_placement or restart_placements of each session.
Tell ==
    /\ pc = "TELL"
    /\ LET told == Range(ready) \cup revoked
       IN  /\ pending' = Without(pending, told)
           /\ phase' = [s \in Session |-> IF s \in told THEN "IDLE" ELSE phase[s]]
           /\ calls' = [s \in Session |-> IF s \in revoked THEN << >> ELSE calls[s]]
           /\ Drop(UNION {Range(calls[s]) : s \in revoked})
    /\ pc' = "IDLE" /\ todo' = << >> /\ ready' = << >> /\ revoked' = {}
    /\ UNCHANGED <<program, pool, grants, kept, busy, leaving, retries, aborted>>

Work(s) == Reserve(s) \/ Finish(s)
Handle(s) == Collect(s) \/ Drain(s)
Reconcile == Resolve \/ Evict \/ Unload \/ ResolveOne \/ Recover \/ Tell

\* The engine has nothing to do; sessions may be waiting.
Idle ==
    /\ pc = "IDLE" /\ ~wake
    /\ \A s \in Session : /\ phase[s] \in Ended \cup {"PLACEMENT_WAITING"}
                          /\ s \in Resource \/ kept[s] = {}
    /\ UNCHANGED vars

Next ==
    \/ \E s \in Session : \/ Dispatch(s) \/ Work(s) \/ Retry(s) \/ Release(s)
                          \/ Handle(s) \/ Pin(s) \/ Unpin(s) \/ Abort(s)
    \/ Reconcile
    \/ Idle

Spec == Init /\ [][Next]_vars

\* Who waits for the coordinator: for Dispatch, Collect or Drain.
Owed(s) == \/ phase[s] \in {"IDLE", "REFUSED", "FAILED"}
           \/ phase[s] = "PLACEMENT_WAITING" /\ s \in aborted

\* The coordinator goes on and handles what is there before it reconciles,
\* executors run what is dispatched and invocations return, and an application
\* gives up its artifacts at some time.  Nothing makes contexts give back their
\* pins, nor the cache a resource, but a plan that covers what is missing.
\* This is WF of Reconcile, SF of Dispatch(s) \/ Handle(s), WF of Work(s) and
\* of Release(s), spelled out by what may not last: only their own steps end
\* it, and the coordinator is IDLE again and again.
Fairness ==
    /\ []<>(pc = "IDLE" /\ ~wake) \/ []<><<TRUE>>_<<pc, todo, leaving>>
    /\ \A s \in Session :
          /\ []<>~Owed(s)
          /\ []<>(phase[s] # "DISPATCHED")
          /\ []<>(s \in Resource \/ kept[s] = {})
FairSpec == Spec /\ Fairness

(***************************************************************************)
(* Properties.                                                             *)
(***************************************************************************)
Ids == DOMAIN pool.placements

\* Every variable has its type.
TypeOK ==
    /\ program \in Workload
    /\ \A id \in Ids :
          /\ id \in Nat /\ pool.placements[id].owner \in Session
          /\ DOMAIN pool.placements[id].bytes \subseteq Device
          /\ \A d \in DOMAIN pool.placements[id].bytes : pool.placements[id].bytes[d] \in Nat
    /\ pool.reserved \in [Device -> Nat] /\ pool.exclusive \in [Device -> BOOLEAN]
    /\ \A key \in DOMAIN grants : key[1] \in Session /\ key[2] \in 1..Len(program[key[1]])
    /\ released \in SUBSET Nat
    /\ calls \in [Session -> Seq(Nat)] /\ kept \in [Session -> SUBSET Nat]
    /\ busy \in SUBSET Resource /\ leaving \in SUBSET Nat
    /\ phase \in [Session -> Phase] /\ \A s \in Session : retries[s] \in 0..RetryLimit[s]
    /\ aborted \in SUBSET Session /\ wake \in BOOLEAN
    /\ pending \in Seq(Session) /\ todo \in Seq(Session) /\ ready \in Seq(Session)
    /\ revoked \in SUBSET Session /\ pc \in {"IDLE", "EVICT", "UNLOAD", "TELL"}

\* A device is never overcommitted: its accounts agree with the reservations
\* on it, and one that is exclusive is alone, even next to no bytes.
CapacityRespected ==
    \A d \in Device :
        /\ pool.reserved[d] = BytesOn(pool, d, On(pool, d, {}))
        /\ pool.reserved[d] <= CapacityOf[d]
        /\ pool.exclusive[d] = ExclusiveOn(pool, d, On(pool, d, {}))
        /\ pool.exclusive[d] => Cardinality(On(pool, d, {})) = 1

\* The accounts of the devices: typed, and never overcommitted, whatever was
\* reserved, given back or revoked in between.
Accounts == TypeOK /\ CapacityRespected

\* Whoever computes on a device or keeps data there has it reserved: what is
\* revoked is taken from sessions that wait, before they are resumed.
LeasesBacked ==
    \A s \in Session :
        /\ phase[s] # "PLACEMENT_WAITING" => Range(calls[s]) \subseteq Ids
        /\ s \notin revoked => Range(calls[s]) \subseteq Ids
        /\ kept[s] \subseteq Ids
        /\ \A id \in Ids \cap (Range(calls[s]) \cup kept[s]) : pool.placements[id].owner = s

\* No capacity is lost: what is reserved is held by somebody, granted, or on
\* its way back.
NothingLeaked == Ids \subseteq Leases \cup released \cup Range(grants)

\* Leases and reservations are the same: no use without a reservation and no
\* reservation without somebody who will give it back.
LeasesAccounted == LeasesBacked /\ NothingLeaked

\* A grant is for a session that will come for it: one of a context that has
\* not ended, at a call it has not made, and told once the round is over.
GrantsAwaited ==
    /\ \A key \in DOMAIN grants :
          /\ grants[key] \in Ids /\ pool.placements[grants[key]].owner = key[1]
          /\ key[1] \notin aborted /\ phase[key[1]] \notin Ended
          /\ key[2] > Len(calls[key[1]])
    /\ pc = "IDLE" => \A s \in Session : phase[s] = "PLACEMENT_WAITING" /\ s \notin aborted =>
          Contains(pending, s) /\ ~Granted(s)

\* A session waits for a device where one of these cached resources has a lease.
WaitsBehind(s, resources) ==
    /\ phase[s] = "PLACEMENT_WAITING" /\ Cached(resources) # {}
    /\ \E target \in Targets(pool, s) : On(pool, target.device, {}) \cap Cached(resources) # {}
\* Moreover, no plan would make room for it, even if nobody used a resource.
HemmedIn(s) == WaitsBehind(s, Resource) /\ Plans(pool, s, Cached(Resource)) = {}

\* Each session would be served if it were alone, and every request names its
\* device or no session asks for more than one placement.  (Of three sessions,
\* all that wait for each other are in one cycle.)
FitsAlone(s) ==
    \A d \in Device :
        LET mine == {k \in DOMAIN program[s] : program[s][k].device = d}
        IN  /\ Total([k \in mine |-> program[s][k].group + program[s][k].each], mine) <= CapacityOf[d]
            /\ (\E k \in mine : RequiresExclusive(d, program[s][k])) => Cardinality(mine) = 1
Exact ==
    /\ Cardinality(Session) <= 3
    /\ \/ \A s \in Session : FitsAlone(s) /\ \A r \in Range(program[s]) : r.device # AnyDevice
       \/ \A s \in Session : Len(program[s]) <= 1

\* Then all sessions end: no wake-up is lost, and a cycle of sessions that wait
\* for each other is broken.  What may keep them waiting for ever is a cached
\* resource, one that is used again and again or too little for any plan.
EverySessionEnds ==
    Exact => \/ <>(\A s \in Session : phase[s] \in Ended)
             \/ []<>(\E s \in Session : WaitsBehind(s, busy))
             \/ <>[](\E s \in Session : HemmedIn(s))
=============================================================================
