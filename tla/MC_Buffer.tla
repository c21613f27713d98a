----------------------------- MODULE MC_Buffer -----------------------------
(* Bounds for checking Buffer with TLC: two byte values.                  *)
EXTENDS Buffer

MCBytes == {1, 2}
====
