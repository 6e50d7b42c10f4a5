----------------------------- MODULE Referrals -----------------------------
(***************************************************************************)
(* The referral graph of one tenant: referralEdge rows, one per referred   *)
(* user, and referralAncestry, the projection that applyCode keeps of      *)
(* them.  The checks of applyCode are reads of their own; the edge and its *)
(* ancestry are then written in one transaction.                           *)
(***************************************************************************)
EXTENDS Integers, FiniteSets

CONSTANTS
    Users,      \* tenant users; each has a referral code
    Callers,    \* slots in which applyCode runs
    MaxEdges,   \* bound: edges ever created
    None        \* no user

VARIABLES
    referrer,   \* referralEdge: the referrer of each user
    edgeId,     \* its id, which is also the order of creation; 0: no edge
    locked,     \* users whose edge has lockedAt
    ancestry,   \* referralAncestry: depth of the second user above the first
    edges,      \* edges created so far
    overtaken,  \* history: users who got a referrer at the same time as that
                \* referrer, after what is above the referrer had been read
    at          \* control state and locals of each applyCode

edgeVars == <<referrer, edgeId, locked, edges, overtaken>>
vars == <<edgeVars, ancestry, at>>

NoDepth == -1
MaxDepth == MaxEdges
NoRows == [v \in Users |-> NoDepth]
Idle == [pc |-> "idle", user |-> None, to |-> None, old |-> 0, rows |-> NoRows]

\* Edges, projection and calls are of their types; no chain is deeper than
\* there are edges, and what a call has read is at most one deeper.
TypeOK ==
    /\ referrer \in [Users -> Users \cup {None}]
    /\ edgeId \in [Users -> 0..MaxEdges]
    /\ locked \subseteq Users
    /\ ancestry \in [Users -> [Users -> NoDepth..MaxDepth]]
    /\ edges \in 0..MaxEdges
    /\ overtaken \subseteq Users
    /\ at \in [Callers ->
          [pc : {"idle", "edge", "write", "read", "commit"},
           user : Users \cup {None}, to : Users \cup {None}, old : 0..MaxEdges,
           rows : [Users -> NoDepth..MaxDepth + 1]]]

Init ==
    /\ referrer = [u \in Users |-> None]
    /\ edgeId = [u \in Users |-> 0]
    /\ locked = {}
    /\ ancestry = [u \in Users |-> NoRows]
    /\ edges = 0
    /\ overtaken = {}
    /\ at = [c \in Callers |-> Idle]

Ancestors(u) == {v \in Users : ancestry[u][v] > 0}

-----------------------------------------------------------------------------
\* applyCode with r's code for u: a self-referral is refused, and so is an r
\* below u in the projection.
ApplyCode(c) ==
    \E u, r \in Users :
        /\ at[c].pc = "idle"
        /\ u # r
        /\ u \notin {v \in Users : ancestry[r][v] # NoDepth}
        /\ at' = [at EXCEPT ![c] = [Idle EXCEPT !.pc = "edge", !.user = u, !.to = r]]
        /\ UNCHANGED <<edgeVars, ancestry>>

\* A locked edge is an error, the same edge again is a success; both return.
FindEdge(c) ==
    LET u == at[c].user
    IN  /\ at[c].pc = "edge"
        /\ at' = IF u \in locked \/ referrer[u] = at[c].to
                 THEN [at EXCEPT ![c] = Idle]
                 ELSE [at EXCEPT ![c].pc = "write", ![c].old = edgeId[u]]
        /\ UNCHANGED <<edgeVars, ancestry>>

Writing(u) == \E c \in Callers : at[c].user = u /\ at[c].pc \in {"read", "commit"}

\* The transaction deletes the edge it found and inserts the new one: it waits
\* for one that writes the same user's edge, and throws if the edge changed.
WriteEdge(c) ==
    LET u == at[c].user
    IN  /\ at[c].pc = "write"
        /\ ~Writing(u)
        /\ edges < MaxEdges
        /\ at' = IF edgeId[u] = at[c].old
                 THEN [at EXCEPT ![c].pc = "read"]
                 ELSE [at EXCEPT ![c] = Idle]
        /\ UNCHANGED <<edgeVars, ancestry>>

\* Mutant of ReadAncestors: counts the referrer twice.
ReadTooDeep(c) ==
    LET u == at[c].user
        r == at[c].to
    IN  /\ at[c].pc = "read"
        /\ at' = [at EXCEPT ![c].pc = "commit",
              ![c].rows = [v \in Users |->
                  CASE v = u -> 0
                    [] v = r -> 1
                    [] v \in Ancestors(r) \ {u, r} -> ancestry[r][v] + 2
                    [] OTHER -> NoDepth]]
        /\ UNCHANGED <<edgeVars, ancestry>>

\* createEdgeWithAncestry: the user, the referrer, and what is above the
\* referrer now; of two rows with one ancestor the first is kept.
ReadAncestors(c) ==
    LET u == at[c].user
        r == at[c].to
    IN  /\ at[c].pc = "read"
        /\ at' = [at EXCEPT ![c].pc = "commit",
              ![c].rows = [v \in Users |->
                  CASE v = u -> 0
                    [] v = r -> 1
                    [] v \in Ancestors(r) \ {u, r} -> ancestry[r][v] + 1
                    [] OTHER -> NoDepth]]
        /\ UNCHANGED <<edgeVars, ancestry>>

CommitEdge(c) ==
    LET u == at[c].user
        behind == {d \in Callers : at[d].pc = "commit" /\ at[d].to = u}
    IN  /\ at[c].pc = "commit"
        /\ edges < MaxEdges
        /\ edges' = edges + 1
        /\ referrer' = [referrer EXCEPT ![u] = at[c].to]
        /\ edgeId' = [edgeId EXCEPT ![u] = edges + 1]
        /\ locked' = locked \ {u}
        /\ ancestry' = [ancestry EXCEPT ![u] = at[c].rows]
        /\ overtaken' = overtaken \cup {at[d].user : d \in behind}
        /\ at' = [at EXCEPT ![c] = Idle]

\* lockEdge: the row must exist and not be under a transaction.
LockEdge(u) ==
    /\ referrer[u] # None
    /\ ~Writing(u)
    /\ locked' = locked \cup {u}
    /\ UNCHANGED <<referrer, edgeId, edges, overtaken, ancestry, at>>

Next ==
    \/ \E c \in Callers :
          \/ ApplyCode(c) \/ FindEdge(c) \/ WriteEdge(c)
          \/ ReadAncestors(c) \/ CommitEdge(c)
    \/ \E u \in Users : LockEdge(u)

Spec == Init /\ [][Next]_vars

-----------------------------------------------------------------------------
(* Properties.                                                             *)

\* Who applied a code while the referrer already had one is below all that the
\* referrer is below, one level deeper, as long as that edge stays, however many
\* codes are applied at once; but for who was overtaken by the referrer.
AncestryInherited ==
    \A u \in Users \ overtaken :
        LET r == referrer[u]
        IN  r # None /\ edgeId[r] # 0 /\ edgeId[r] < edgeId[u] =>
              \A v \in Ancestors(r) \ {u} : ancestry[u][v] = ancestry[r][v] + 1

\* No user is above itself: following referrers up from a user never leads back
\* to that user.
Above(u) ==
    LET up[n \in 0..Cardinality(Users)] ==
          IF n = 0 THEN {referrer[u]} \ {None}
          ELSE up[n - 1] \cup ({referrer[v] : v \in up[n - 1]} \ {None})
    IN  up[Cardinality(Users)]
NoCycle == \A u \in Users : u \notin Above(u)
=============================================================================
