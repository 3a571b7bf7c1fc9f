----------------------------- MODULE FlowLookup -----------------------------
(***************************************************************************)
(* The cookie codec and the flow lookups of flow_utils.py that use it:     *)
(* is_forward_cookie, is_reverse_cookie, is_same_direction, get_old_flow   *)
(* and get_flows.  Each lookup is one graph query followed by a loop over *)
(* its rows in the order the query returns them, which Cypher does not    *)
(* fix: the loop is modelled over an explicit row sequence.                *)
(*                                                                         *)
(* Cookies are W-bit two's complement longs, the 64-bit cookie scaled down *)
(* so that the three top bits, the forward and reverse bits and the legacy *)
(* direction bit (bit 55 of 64, eight bits below the top) keep their       *)
(* places.  A :flow row is abstracted to [flowid, cookie]; hydrate_flow's  *)
(* JSON decoding is left out.                                              *)
(***************************************************************************)
EXTENDS Integers, Sequences, SequencesExt, Bitwise, TLC

CONSTANTS W,                 \* cookie width, at least 10
          NotFound,          \* get_old_flow: 'Flow ... not found'
          DirectionMismatch, \* get_old_flow: no matching direction
          NoRecord           \* a direction get_flows found no row for

TopBits          == 7 * 2^(W - 3)    \* 0xE000000000000000
ForwardBit       == 2^(W - 2)        \* 0x4000000000000000
ReverseBit       == 2^(W - 3)        \* 0x2000000000000000
LegacyReverseBit == 2^(W - 9)        \* 0x0080000000000000

\* int(cookie) & mask for a mask below 2^W: the bits of the cookie's W-bit
\* two's complement, as Python's & gives them for a negative int.
Bits(c) == c % 2^W

IsForwardCookie(c) ==
    IF (Bits(c) & TopBits) # 0 THEN (Bits(c) & ForwardBit) # 0
                               ELSE (Bits(c) & LegacyReverseBit) = 0

\* Mutant form: the legacy test copied from is_forward_cookie.
IsReverseCookieLegacyCopy(c) ==
    IF (Bits(c) & TopBits) # 0 THEN (Bits(c) & ReverseBit) # 0
                               ELSE (Bits(c) & LegacyReverseBit) = 0

IsReverseCookie(c) ==
    IF (Bits(c) & TopBits) # 0 THEN (Bits(c) & ReverseBit) # 0
                               ELSE (Bits(c) & LegacyReverseBit) # 0

IsSameDirection(a, b) ==
    \/ IsForwardCookie(a) /\ IsForwardCookie(b)
    \/ IsReverseCookie(a) /\ IsReverseCookie(b)

\* Mutant form: get_old_flow's query without its WHERE r.cookie <> clause.
OldFlowRowsNoCookieFilter(db, new) == {r \in db : r.flowid = new.flowid}

\* get_old_flow's query: the :flow rows of the flowid with another cookie.
OldFlowRows(db, new) == {r \in db : r.flowid = new.flowid /\ r.cookie # new.cookie}

\* get_old_flow's checks and loop over the rows, in query order: no row
\* raises 'not found'; otherwise the first row of the same direction as
\* the new flow is returned, and if there is none the call raises.
GetOldFlow(new, rows) ==
    LET first == SelectInSeq(rows, LAMBDA r : IsSameDirection(new.cookie, r.cookie))
    IN IF rows = <<>> THEN NotFound
       ELSE IF first = 0 THEN DirectionMismatch
       ELSE rows[first]

\* One iteration of get_flows' loop: flows.get(flowid, {}), then the row
\* goes to 'forward' if is_forward_cookie, else to 'reverse', overwriting.
GetFlowsStep(acc, r) ==
    LET pair == IF r.flowid \in DOMAIN acc THEN acc[r.flowid]
                ELSE [forward |-> NoRecord, reverse |-> NoRecord]
        upd  == IF IsForwardCookie(r.cookie) THEN [pair EXCEPT !.forward = r]
                                             ELSE [pair EXCEPT !.reverse = r]
    IN (r.flowid :> upd) @@ acc

\* get_flows over the rows of MATCH ()-[r:flow]->() in query order: one
\* {forward, reverse} pair per flowid.
GetFlows(rows) == FoldLeft(GetFlowsStep, [f \in {} |-> NoRecord], rows)

=============================================================================
