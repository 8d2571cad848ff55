-------------------------- MODULE ColumnarBuilder --------------------------
(***************************************************************************)
(* OracleColumnarBuilder (QoreOracleStatement.cpp): collects the values of *)
(* one column of a columnar result.  A column of integers is an array of   *)
(* values with a validity bitmap that exists only from the first NULL on;  *)
(* a column of NUMBERs starts as one and becomes a list at the first value *)
(* that is no integer; any other column is a list.                         *)
(***************************************************************************)
EXTENDS Naturals, Sequences

CONSTANTS
    Bits,   \* the bits of a byte of the bitmap (8 in the code)
    Null    \* the value of a column that is NULL

ASSUME BitsAssumption == Bits \in Nat \ {0}

(***************************************************************************)
(* A value as the define buffer holds it: NULL, an integer or not.         *)
(***************************************************************************)
Classes == {"null", "int", "fraction"}

(***************************************************************************)
(* A new builder for a column: "integer" stands for the types with an      *)
(* array of their own (integers, floats and decimals), "number" for a      *)
(* NUMBER with the option "optimal-numbers", "other" for the rest.         *)
(***************************************************************************)
newBuilder(type) ==
    [kind |-> CASE type = "integer" -> "Int64"
                [] type = "number"  -> "NumberOptimal"
                [] type = "other"   -> "List",
     list |-> <<>>, values |-> <<>>, validity |-> <<>>,
     row_count |-> 0, null_count |-> 0]

(***************************************************************************)
(* The bitmap: a sequence of bytes, each the set of the bits that are set. *)
(***************************************************************************)
Ones == 0..(Bits - 1)

bitmapSize(size) == (size + Bits - 1) \div Bits

resize(validity, size, fill) ==
    [i \in 1..size |-> IF i <= Len(validity) THEN validity[i] ELSE fill]

setValidityBit(validity, index, valid) ==
    LET byte == index \div Bits
        bits == IF byte >= Len(validity) THEN resize(validity, byte + 1, {})
                ELSE validity
        mask == {index % Bits}
    IN  [bits EXCEPT ![byte + 1] = IF valid THEN @ \cup mask ELSE @ \ mask]

isValid(validity, index) ==
    \/ validity = <<>>
    \/ /\ index \div Bits < Len(validity)
       /\ index % Bits \in validity[(index \div Bits) + 1]

ensureValidity(b) ==
    resize(b.validity, bitmapSize(b.row_count + 1),
           IF b.validity = <<>> THEN Ones ELSE {})

Filler == <<0, 0>>

appendNull(b) ==
    [b EXCEPT !.validity = setValidityBit(ensureValidity(b), b.row_count, FALSE),
              !.values = Append(@, Filler),
              !.null_count = @ + 1, !.row_count = @ + 1]

appendValid(b, value) ==
    [b EXCEPT !.values = Append(@, value),
              !.validity = IF @ = <<>> THEN @ ELSE setValidityBit(@, b.row_count, TRUE),
              !.row_count = @ + 1]

appendList(b, value) ==
    [b EXCEPT !.list = Append(@, value), !.row_count = @ + 1]

\* mutation: the NULLs so far become values
fallbackToList_ForgetsNulls(b) ==
    [b EXCEPT !.kind = "List", !.null_count = 0,
              !.values = <<>>, !.validity = <<>>, !.list = b.values]

(***************************************************************************)
(* fallbackToList(): the values so far become the elements of a list.      *)
(***************************************************************************)
fallbackToList(b) ==
    [b EXCEPT !.kind = "List", !.null_count = 0,
              !.values = <<>>, !.validity = <<>>,
              !.list = [i \in 1..b.row_count |->
                           IF isValid(b.validity, i - 1) THEN b.values[i] ELSE Null]]

(***************************************************************************)
(* append() of a value of a class.                                         *)
(***************************************************************************)
append(b, value, class) ==
    CASE b.kind = "List" -> appendList(b, value)
      [] b.kind # "List" /\ class = "null" -> appendNull(b)
      [] b.kind = "Int64" /\ class # "null" -> appendValid(b, value)
      [] b.kind = "NumberOptimal" /\ class = "int" -> appendValid(b, value)
      [] b.kind = "NumberOptimal" /\ class = "fraction" ->
             appendList(fallbackToList(b), value)

(***************************************************************************)
(* finish(): a list, or a buffer whose elements are read through the       *)
(* bitmap, which is passed on only if the column has a NULL.               *)
(***************************************************************************)
finish(b) ==
    IF b.kind = "List" THEN b.list
    ELSE LET validity == IF b.null_count > 0 THEN b.validity ELSE <<>>
         IN  [i \in 1..b.row_count |->
                 IF isValid(validity, i - 1) THEN b.values[i] ELSE Null]
=============================================================================
