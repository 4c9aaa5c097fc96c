----------------------------- MODULE MCTableSchema -----------------------------
(***************************************************************************)
(* A small instance of TableSchema, with a name for every way a line may   *)
(* be read back: two are plain, " #c" begins with a space and is a comment *)
(* once it is trimmed, and a:1 has a colon inside, so that its line may be *)
(* cut into one of a column a of size 1.                                   *)
(***************************************************************************)
EXTENDS TableSchema

Column(name, size, type) == [name |-> name, size |-> size, type |-> type]

SomeColumns ==
  {Column("a", 3, "Int32"), Column("b", 5, "Int64"), Column(" #c", 0, "Other"),
   Column("a:1", 2, "Int32")}

ReadBack ==
  [n \in {"a", "b", " #c", "a:1"} |->
     CASE n = " #c" -> "comment" [] n = "a:1" -> "colon" [] OTHER -> n]

SpaceFirst == {" #c"}

CutAtColons == {[name |-> "a", size |-> 1, type |-> "Unknown", key |-> "torn"]}
=============================================================================
