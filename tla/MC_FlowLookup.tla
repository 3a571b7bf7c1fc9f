---------------------------- MODULE MC_FlowLookup ----------------------------
(***************************************************************************)
(* Harness for FlowLookup: the store's :flow rows, db, grow and shrink one *)
(* row at a time over every subset of a small row set, and the lookups are *)
(* checked in every state for every order the query may return the rows   *)
(* in.  The rows are those a flow update goes through: flow FA with its    *)
(* forward and reverse records under an old and a new cookie pair, and     *)
(* flow FB with legacy cookies and a new kilda-style forward cookie.       *)
(***************************************************************************)
EXTENDS FlowLookup, FiniteSets

CONSTANTS FA, FB

VARIABLE db

\* Cookies by construction: kilda cookies carry the direction bit and a
\* flow number, legacy cookies the flow number and bit 55 for reverse.
KildaCookie(dir, n)  == (IF dir = "forward" THEN ForwardBit ELSE ReverseBit) + n
LegacyCookie(dir, n) == (IF dir = "forward" THEN 0 ELSE LegacyReverseBit) + n

Ids == 1..7
Built == {[dir |-> d, cookie |-> KildaCookie(d, n)] : d \in {"forward", "reverse"}, n \in Ids}
         \cup {[dir |-> d, cookie |-> LegacyCookie(d, n)] : d \in {"forward", "reverse"}, n \in Ids}

\* The direction a cookie was built with.
RefDir(c) == (CHOOSE b \in Built : b.cookie = c).dir

Row(f, dir, n, kilda) ==
    [flowid |-> f, cookie |-> IF kilda THEN KildaCookie(dir, n) ELSE LegacyCookie(dir, n)]

Rows == {Row(FA, "forward", 1, TRUE), Row(FA, "reverse", 1, TRUE),
         Row(FA, "forward", 2, TRUE), Row(FA, "reverse", 2, TRUE),
         Row(FB, "forward", 3, FALSE), Row(FB, "reverse", 3, FALSE),
         Row(FB, "forward", 3, TRUE)}

Init == db = {}

AddRow == \E r \in Rows \ db : db' = db \cup {r}

DropRow == \E r \in db : db' = db \ {r}

Next == AddRow \/ DropRow

Spec == Init /\ [][Next]_db

-----------------------------------------------------------------------------

\* The codec's design (8): the cookie of every stored row, kilda-style or
\* legacy, forward or reverse, is exactly one of forward and reverse, the
\* one it was built as.
DirectionExclusive ==
    \A r \in db :
        /\ IsForwardCookie(r.cookie) = (RefDir(r.cookie) = "forward")
        /\ IsReverseCookie(r.cookie) = (RefDir(r.cookie) = "reverse")

\* get_old_flow(new) (design 4.5), whatever the row order: NotFound when no
\* other row of the flowid is stored, DirectionMismatch when none of them
\* has new's direction, and otherwise one of those of new's direction --
\* never the new row itself, never the opposite direction's record.
OldFlowIsCounterpart ==
    \A new \in db :
        LET others == {r \in db : r.flowid = new.flowid /\ r # new}
            same   == {r \in others : RefDir(r.cookie) = RefDir(new.cookie)}
        IN \A rows \in SetToSeqs(OldFlowRows(db, new)) :
              LET got == GetOldFlow(new, rows) IN
              CASE others = {} -> got = NotFound
                [] same = {}   -> got = DirectionMismatch
                [] OTHER       -> got \in same

\* get_flows (design 4.5) returns every :flow record, grouped by flowid.
GetFlowsReturnsEveryRecord ==
    \A rows \in SetToSeqs(db) :
        LET res == GetFlows(rows) IN
        \A r \in db : r \in {res[r.flowid].forward, res[r.flowid].reverse}
=============================================================================
