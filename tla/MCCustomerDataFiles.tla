------------------------ MODULE MCCustomerDataFiles ------------------------
(* Instances of CustomerDataFiles for TLC.                                 *)
EXTENDS CustomerDataFiles, Naturals

(* 1 is a hand-made name in upper case, 2 the same in lower case, 3 another *)
(* name in lower case, 4 a name that entryList does not list.              *)
MCLower == [f \in File |-> IF f = 1 THEN 2 ELSE f]
MCListed == File \ {4}
MCFirst == [list \in SUBSET MCListed \ {{}} |->
               CHOOSE f \in list : \A g \in list : f <= g]

(* Whole files have every field; with others a file may have unknown keys  *)
(* only, lack fields, hold values that are no strings, or no JSON, or not  *)
(* be readable.                                                            *)
WholeFiles == [Field -> Value \ {Empty}]
UsableFiles == WholeFiles \cup [Key \ Field -> Value \ {Empty}]
PartFiles == WholeFiles \cup [{CHOOSE x \in Field : TRUE} -> Value \ {Empty}]
BrokenFiles == PartFiles \cup {Broken}
OddFiles == [{CHOOSE x \in Field : TRUE} \cup (Key \ Field) -> JsonValue \ Value]
AnyFiles == BrokenFiles \cup OddFiles \cup {Unreadable}
=============================================================================
