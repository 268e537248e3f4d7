------------------------------ MODULE MCJniHeap ------------------------------
(***************************************************************************)
(* Instances of JniHeap for TLC: addresses are symmetric.                  *)
(***************************************************************************)
EXTENDS JniHeap, TLC

Plain == {"plain"}
PlainAndClass == {"plain", "class"}
AllCalls == CallNames
References == {"New", "NewGlobalRef", "DeleteGlobalRef"}
Symmetric == Permutations(Addr)
=============================================================================
