---------------------------- MODULE PageAllocator ----------------------------
(***************************************************************************)
(* What a page allocator promises its callers, without any of the buddy     *)
(* machinery: a request for an order is answered with an aligned run of     *)
(* free pages of that order whenever there is one, it is refused only when  *)
(* there is none, and a run given back is free again.  Buddy.tla is shown   *)
(* to implement this specification.                                         *)
(***************************************************************************)
EXTENDS Integers

CONSTANTS
    MaxOrder,   \* largest order of a request (MAX_BUDDY_ORDER)
    NPages,     \* number of pages in the arena
    BlockSize   \* BlockSize[k] is 1 << k

VARIABLES
    free,       \* pages that belong to the allocator
    held,       \* runs <<page, order>> that belong to the callers
    req         \* order of the request being served, Idle when there is none

vars == <<free, held, req>>

Orders == 0 .. MaxOrder
Pages  == 0 .. NPages - 1
Idle   == -1

Run(p, k)     == p .. p + BlockSize[k] - 1
Aligned(p, k) == p % BlockSize[k] = 0

\* The runs of order k that could answer a request now.
Candidates(k) == {p \in Pages : Aligned(p, k) /\ Run(p, k) \subseteq free}

Init == free = {} /\ held = {} /\ req = Idle

\* Start-up hands the allocator its pages one at a time.
Donate(p) ==
    /\ req = Idle
    /\ held = {} /\ p \notin free
    /\ free' = free \cup {p}
    /\ UNCHANGED <<held, req>>

Request(k) ==
    /\ req = Idle
    /\ req' = k
    /\ UNCHANGED <<free, held>>

Grant(p) ==
    /\ req # Idle
    /\ p \in Candidates(req)
    /\ free' = free \ Run(p, req)
    /\ held' = held \cup {<<p, req>>}
    /\ req' = Idle

Refuse ==
    /\ req # Idle
    /\ Candidates(req) = {}
    /\ req' = Idle
    /\ UNCHANGED <<free, held>>

GiveBack(p, k) ==
    /\ req = Idle
    /\ <<p, k>> \in held
    /\ held' = held \ {<<p, k>>}
    /\ free' = free \cup Run(p, k)
    /\ UNCHANGED req

Answer == Refuse \/ \E p \in Pages : Grant(p)

Next == \/ \E p \in Pages : Donate(p)
        \/ \E k \in Orders : Request(k)
        \/ Answer
        \/ \E p \in Pages, k \in Orders : GiveBack(p, k)

\* Callers may stop asking; a request that was made is answered.
Fairness == WF_vars(Answer)

Safety == Init /\ [][Next]_vars
Spec   == Safety /\ Fairness
=============================================================================
