----------------------- MODULE MCCustomerDataSystem -----------------------
(* Instances of CustomerDataSystem for TLC: two file names that are their  *)
(* own lower case.                                                         *)
EXTENDS CustomerDataSystem, Naturals

MCLower == [f \in File |-> f]
MCListed == File
MCFirst == [list \in SUBSET MCListed \ {{}} |->
               CHOOSE f \in list : \A g \in list : f <= g]

WholeFiles == [Field -> Value \ {Empty}]
OddFiles == WholeFiles \cup {Broken}

Searches == [Field -> Value \ {Empty}]
SearchesOrNone == Searches \cup {<<>>}
=============================================================================
