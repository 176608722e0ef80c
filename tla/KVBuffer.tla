------------------------------ MODULE KVBuffer ------------------------------
(***************************************************************************)
(* KV memory as functions from token positions (0, 1, ...) to rows.  A row  *)
(* stands for the keys and values all heads hold at one position; the       *)
(* properties only tell apart who wrote it (see KVRow), never its numbers.  *)
(*                                                                         *)
(* A KV sequence of length n is a function on 0 .. n-1.  A pre-allocated    *)
(* buffer of umic/cache.py is a function on 0 .. cap-1 whose tail holds     *)
(* uninitialised or stale rows.                                            *)
(***************************************************************************)
EXTENDS Integers

(* The positions of a sequence of length n. *)
Positions(n) == 0 .. n - 1

NoRows == [p \in Positions(0) |-> 0]

(* A row written for a token of inference i, rotated with the rope offset   *)
(* of inference r, for a text token (prompt or decoded) or an action token. *)
KVRow(i, r, k) == [inf |-> i, rope |-> r, kind |-> k]

KVRows(I) == [inf : I, rope : I, kind : {"text", "action"}]

(* Sequences of n rows of R. *)
Sequences(R, n) == [Positions(n) -> R]

(* The rows inference i may have written, and: b holds no other. *)
RowsOf(i) == {KVRow(i, i, "text"), KVRow(i, i, "action")}

OwnRows(i, b) == \A p \in DOMAIN b : b[p] \in RowsOf(i)

Fill(n, row) == [p \in Positions(n) |-> row]

(* buf[:, :, :n, :] *)
Prefix(b, n) == [p \in Positions(n) |-> b[p]]

(* DynamicLayer.update: concatenate n rows to a sequence of length len. *)
Concat(kv, len, n, row) ==
    [p \in Positions(len + n) |-> IF p < len THEN kv[p] ELSE row]

(* buf[:, :, at:at+n, :] = row, the buffer keeping its size. *)
WriteSlice(b, at, n, row) ==
    [p \in DOMAIN b |-> IF at <= p /\ p < at + n THEN row ELSE b[p]]

(* buf[:, :, :n, :].copy_(kv) *)
CopyPrefix(b, kv, n) == [p \in DOMAIN b |-> IF p < n THEN kv[p] ELSE b[p]]

(* torch.empty of cap rows, its first len rows then copied from kv. *)
Allocate(kv, len, cap, junk) ==
    [p \in Positions(cap) |-> IF p < len THEN kv[p] ELSE junk]
=============================================================================
