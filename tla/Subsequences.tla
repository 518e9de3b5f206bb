---------------------------- MODULE Subsequences ----------------------------
(***************************************************************************)
(* What a filter over an iterator leaves. The elements to keep are a set   *)
(* and not a test, and the definition is a recursive function, so that     *)
(* what it returns can be proved and not only computed.                    *)
(***************************************************************************)
EXTENDS Naturals, Sequences

\* The elements of a sequence that are in S, in their order.
Keeping(s, S) ==
  LET kept[n \in 0 .. Len(s)] ==
        IF n = 0 THEN <<>> ELSE IF s[n] \in S THEN Append(kept[n - 1], s[n]) ELSE kept[n - 1]
  IN  kept[Len(s)]
=============================================================================
