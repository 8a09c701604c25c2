----------------------------- MODULE MC_Session -----------------------------
(* Three tasks, the third waiting for the second, and a child outside the    *)
(* approved order that waits for the third.                                  *)
EXTENDS Session, TLC
CONSTANTS t1, t2, t3, x
MCOrder == <<t1, t2, t3>>
MCBlocker == (t1 :> {}) @@ (t2 :> {}) @@ (t3 :> {t2}) @@ (x :> {t3})
=============================================================================
