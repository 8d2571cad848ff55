------------------------- MODULE StatementBindProofs -------------------------
(***************************************************************************)
(* Proofs about StatementBind, for any number of positions and any         *)
(* arguments: a statement runs with its arguments, and its memory is not   *)
(* damaged unless a node was bound while it was an array or with dates.    *)
(***************************************************************************)
EXTENDS StatementBind, TLAPS

(***************************************************************************)
(* The types of the nodes and of what the handle has.                      *)
(***************************************************************************)
Types == {"none", "INT", "STR", "LOB", "TIMESTAMP"}
Unions == {"null", "value", "buffer", "datetime", "array", "stale"}
Lobs == {"descriptor", "temporary"}

Nodes == [arg : Arguments, dtype : Types, array : BOOLEAN, buf : Unions,
          tmp : BOOLEAN, lob : SUBSET Lobs]

NodesType ==
    /\ nodes \in [Positions -> Nodes]
    /\ \A p \in Positions : nodes[p].arg \in Args(p) \cup {Nothing}

(***************************************************************************)
(* The lists are as long as the array: there is an array only if a value   *)
(* is a list, and none for a select statement.                             *)
(***************************************************************************)
SizesAgree ==
    /\ \A p \in Values : nodes[p].arg.size > 0 => nodes[p].arg.size = array_size
    /\ array_size # 0 => \E p \in Values : nodes[p].arg.size = array_size
    /\ array_size \in Nat /\ (is_select => array_size = 0)

(***************************************************************************)
(* The handle has the argument of a position, in memory that is there.     *)
(***************************************************************************)
Runs(p) ==
    /\ bound[p].arg = nodes[p].arg
    /\ bound[p].at \in (owns(nodes[p]) \cup {"node"}) \X {p}

(***************************************************************************)
(* The positions before pos are bound; an execution that is bound again on *)
(* a new session keeps its iterations.                                     *)
(***************************************************************************)
BindInv ==
    /\ NodesType
    /\ DOMAIN bound = Positions
    /\ pos \in Nat
    /\ is_select \in BOOLEAN /\ again \in BOOLEAN
    /\ status \in {"binding", "ready", "taken", "retry"} => SizesAgree
    /\ status \in {"binding", "retry"} /\ again => iters = Iterations
    /\ status = "retry" => again
    /\ status = "binding" => \A p \in Positions : p < pos => Runs(p)
    /\ status \in {"ready", "retry"} => \A p \in Positions : Runs(p)

(***************************************************************************)
(* A node whose type, flag and union agree: what it frees is its own.      *)
(***************************************************************************)
Clean(p, n) ==
    /\ n.array /\ n.dtype # "none" => n.buf \in {"null", "array"}
    /\ n.dtype = "TIMESTAMP" =>
          n.arg.class = "date" /\ ~n.array /\ n.buf \in {"null", "datetime"}
    /\ p \in Outputs /\ ~n.array /\ n.dtype = "STR" => n.buf \in {"null", "buffer"}

(***************************************************************************)
(* As long as nothing went astray, every node is clean, and a statement    *)
(* without lists has no node that is an array.                             *)
(***************************************************************************)
CleanInv ==
    /\ astray \in BOOLEAN
    /\ ~astray =>
          /\ status # "undefined"
          /\ \A p \in Positions : Clean(p, nodes[p])
          /\ status = "binding" /\ ~(array_size > 0) =>
                \A p \in Positions : p < pos => ~nodes[p].array
          /\ status = "ready" \/ status = "retry" =>
                (~(array_size > 0) => \A p \in Positions : ~nodes[p].array)

-----------------------------------------------------------------------------
LEMMA ArgumentTypes ==
    /\ \A arg \in Arguments : arg.class \in Classes /\ arg.size \in Nat \cup {Scalar}
    /\ \A p \in Outputs : \A arg \in Args(p) \cup {Nothing} :
          arg.class \in {"null", "int", "string", "date"} /\ arg.size = Scalar
    /\ \A p \in Positions : Args(p) \cup {Nothing} \subseteq Arguments
    /\ Nothing.size = Scalar /\ Scalar = -1 /\ Nothing \in Arguments
<1>1. Nothing.class = "null" /\ Nothing.size = Scalar /\ Scalar = -1
  BY DEF Nothing, Scalar
<1>2. Nothing \in Arguments
  BY DEF Arguments, Nothing, Classes
<1>3. \A arg \in Arguments : arg.class \in Classes /\ arg.size \in Nat \cup {Scalar}
  BY DEF Arguments
<1>4. \A p \in Outputs : \A arg \in Args(p) :
         arg.class \in {"int", "string", "date"} /\ arg.size = Scalar
  BY ArgsAssumption DEF IsList
<1>5. \A p \in Positions : Args(p) \cup {Nothing} \subseteq Arguments
  BY <1>2, ArgsAssumption
<1>6. \A p \in Outputs : \A arg \in Args(p) \cup {Nothing} :
         arg.class \in {"null", "int", "string", "date"} /\ arg.size = Scalar
  BY <1>1, <1>4
<1> QED
  BY <1>1, <1>2, <1>3, <1>5, <1>6

LEMMA PositionTypes == Positions \subseteq Nat /\ Values \subseteq Positions
BY PositionsAssumption DEF Positions

(***************************************************************************)
(* The parts of a node.                                                    *)
(***************************************************************************)
LEMMA NodeParts ==
    ASSUME NEW n \in Nodes
    PROVE  /\ n = [arg |-> n.arg, dtype |-> n.dtype, array |-> n.array, buf |-> n.buf,
                   tmp |-> n.tmp, lob |-> n.lob]
           /\ n.arg \in Arguments /\ n.dtype \in Types /\ n.array \in BOOLEAN
           /\ n.buf \in Unions /\ n.tmp \in BOOLEAN /\ n.lob \in SUBSET Lobs
BY DEF Nodes

LEMMA MakeNode ==
    ASSUME NEW a \in Arguments, NEW d \in Types, NEW f \in BOOLEAN, NEW b \in Unions,
           NEW t \in BOOLEAN, NEW l \in SUBSET Lobs, NEW m,
           m = [arg |-> a, dtype |-> d, array |-> f, buf |-> b, tmp |-> t, lob |-> l]
    PROVE  /\ m \in Nodes
           /\ m.arg = a /\ m.dtype = d /\ m.array = f /\ m.buf = b /\ m.tmp = t /\ m.lob = l
BY DEF Nodes

(***************************************************************************)
(* A node that is reset or cleared.                                        *)
(***************************************************************************)
LEMMA ResetParts ==
    ASSUME NEW n \in Nodes
    PROVE  /\ resetValue(n) \in Nodes /\ resetValue(n).arg = n.arg
           /\ n.dtype = "none" => resetValue(n) = n
           /\ n.dtype # "none" /\ n.array =>
                 resetValue(n).dtype = n.dtype /\ resetValue(n).array = FALSE
           /\ n.dtype # "none" /\ ~n.array =>
                 resetValue(n).dtype = "none" /\ resetValue(n).array = FALSE
<1>0. PICK f \in BOOLEAN : f = FALSE
  OBVIOUS
<1>1. n = [arg |-> n.arg, dtype |-> n.dtype, array |-> n.array, buf |-> n.buf,
           tmp |-> n.tmp, lob |-> n.lob]
  BY NodeParts
<1>2. /\ n.arg \in Arguments /\ n.dtype \in Types /\ n.array \in BOOLEAN
      /\ n.buf \in Unions /\ n.lob \in SUBSET Lobs
      /\ "stale" \in Unions /\ "null" \in Unions /\ "none" \in Types
      /\ {} \in SUBSET Lobs /\ FALSE \in BOOLEAN
  BY NodeParts DEF Unions, Types
<1>a. PICK a \in Arguments, d \in Types, l \in SUBSET Lobs :
         a = n.arg /\ d = n.dtype /\ l = n.lob
  BY <1>2
<1>3. CASE n.dtype = "none"
  BY <1>3 DEF resetValue
<1>4. CASE n.dtype # "none" /\ n.array
  <2>1. PICK b \in Unions : b = IF n.buf = "null" THEN n.buf ELSE "stale"
    BY <1>2
  <2>2. resetValue(n) = [n EXCEPT !.array = FALSE, !.tmp = FALSE, !.buf = b]
    BY <1>4, <2>1 DEF resetValue
  <2>3. PICK m : m = [arg |-> a, dtype |-> d, array |-> f, buf |-> b,
                      tmp |-> f, lob |-> l]
    OBVIOUS
  <2>4. m \in Nodes /\ m.arg = a /\ m.dtype = d /\ m.array = f
    BY <1>2, <2>3, MakeNode
  <2>5. resetValue(n) = m
    BY <1>0, <1>a, <1>1, <1>2, <2>2, <2>3
  <2> QED
    BY <1>0, <1>a, <1>4, <2>4, <2>5
<1>5. CASE n.dtype # "none" /\ ~n.array
  <2>1. PICK b \in Unions :
           b = IF n.dtype = "TIMESTAMP" /\ n.lob = {} THEN "null" ELSE n.buf
    BY <1>2
  <2>2. resetValue(n) = [n EXCEPT !.dtype = "none", !.tmp = FALSE, !.lob = {}, !.buf = b]
    BY <1>5, <2>1 DEF resetValue
  <2>3. PICK m : m = [arg |-> a, dtype |-> "none", array |-> f, buf |-> b,
                      tmp |-> f, lob |-> {}]
    OBVIOUS
  <2>4. m \in Nodes /\ m.arg = a /\ m.dtype = "none" /\ m.array = f
    BY <1>2, <1>5, <2>3, MakeNode
  <2>5. resetValue(n) = m
    BY <1>0, <1>a, <1>1, <1>2, <1>5, <2>2, <2>3
  <2> QED
    BY <1>0, <1>a, <1>5, <2>4, <2>5
<1> QED
  BY <1>3, <1>4, <1>5

LEMMA ClearedParts ==
    ASSUME NEW n \in Nodes
    PROVE  /\ clearPlaceholder(n) \in Nodes /\ clearPlaceholder(n).arg = n.arg
           /\ n.dtype = "none" => clearPlaceholder(n) = n
           /\ n.dtype # "none" => clearPlaceholder(n).dtype = "none"
                                  /\ clearPlaceholder(n).array = FALSE
<1>0. PICK f \in BOOLEAN : f = FALSE
  OBVIOUS
<1>1. n = [arg |-> n.arg, dtype |-> n.dtype, array |-> n.array, buf |-> n.buf,
           tmp |-> n.tmp, lob |-> n.lob]
  BY NodeParts
<1>2. /\ n.arg \in Arguments /\ n.dtype \in Types /\ n.array \in BOOLEAN
      /\ n.buf \in Unions /\ n.lob \in SUBSET Lobs
      /\ "stale" \in Unions /\ "none" \in Types /\ FALSE \in BOOLEAN
  BY NodeParts DEF Unions, Types
<1>a. PICK a \in Arguments, d \in Types, l \in SUBSET Lobs :
         a = n.arg /\ d = n.dtype /\ l = n.lob
  BY <1>2
<1>3. CASE n.dtype = "none"
  BY <1>3 DEF clearPlaceholder
<1>4. CASE n.dtype # "none"
  <2>1. PICK b \in Unions : b = IF n.buf = "null" THEN n.buf ELSE "stale"
    BY <1>2
  <2>2. clearPlaceholder(n) =
           [n EXCEPT !.dtype = "none", !.array = FALSE, !.tmp = FALSE, !.buf = b]
    BY <1>4, <2>1 DEF clearPlaceholder
  <2>3. PICK m : m = [arg |-> a, dtype |-> "none", array |-> f, buf |-> b,
                      tmp |-> f, lob |-> l]
    OBVIOUS
  <2>4. m \in Nodes /\ m.arg = a /\ m.dtype = "none" /\ m.array = f
    BY <1>2, <2>3, MakeNode
  <2>5. clearPlaceholder(n) = m
    BY <1>0, <1>a, <1>1, <1>2, <2>2, <2>3
  <2> QED
    BY <1>0, <1>a, <1>4, <2>4, <2>5
<1> QED
  BY <1>3, <1>4

LEMMA ClearedTypes ==
    ASSUME NEW p, NEW n \in Nodes
    PROVE  Cleared(p, n) \in Nodes /\ Cleared(p, n).arg = n.arg
BY ResetParts, ClearedParts DEF Cleared

(***************************************************************************)
(* What is cleared stays clean, and has no date left, nor is it an array   *)
(* if its type was set.                                                    *)
(***************************************************************************)
LEMMA ClearedIsClean ==
    ASSUME NEW p \in Positions, NEW n \in Nodes, Clean(p, n)
    PROVE  /\ Clean(p, Cleared(p, n))
           /\ Cleared(p, n).dtype # "TIMESTAMP"
           /\ ~n.array => ~Cleared(p, n).array
<1>1. p \in Outputs => p \notin Values
  BY PositionsAssumption
<1>2. CASE p \in Values
  BY <1>1, <1>2, ResetParts DEF Clean, Cleared
<1>3. CASE p \notin Values
  BY <1>3, ClearedParts DEF Clean, Cleared
<1> QED
  BY <1>2, <1>3

LEMMA CleanIsOwn ==
    ASSUME NEW p, NEW n, Clean(p, n)
    PROVE  ~strays(p, n)
BY DEF Clean, strays

(***************************************************************************)
(* The nodes with new arguments.                                           *)
(***************************************************************************)
LEMMA SetParts ==
    ASSUME NodesType, NEW ps \in SUBSET Positions, set(ps)
    PROVE  /\ NodesType'
           /\ \A p \in ps : /\ nodes'[p].dtype = clearNode(p).dtype
                            /\ nodes'[p].array = clearNode(p).array
                            /\ nodes'[p].buf = clearNode(p).buf
           /\ \A p \in Positions \ ps : nodes'[p] = nodes[p]
<1>1. PICK args \in ArgLists(ps) : nodes' = [p \in Positions |->
               IF p \in ps THEN [clearNode(p) EXCEPT !.arg = args[p]] ELSE nodes[p]]
  BY DEF set
<1>2. ASSUME NEW p \in ps
      PROVE  /\ nodes'[p] \in Nodes /\ nodes'[p].arg \in Args(p)
             /\ nodes'[p].dtype = clearNode(p).dtype
             /\ nodes'[p].array = clearNode(p).array
             /\ nodes'[p].buf = clearNode(p).buf
  <2>1. args[p] \in Args(p) /\ args[p] \in Arguments
    BY ArgumentTypes DEF ArgLists
  <2>2. PICK c \in Nodes : c = clearNode(p)
    BY ClearedTypes DEF clearNode, NodesType
  <2>3. nodes'[p] = [c EXCEPT !.arg = args[p]]
    BY <1>1, <2>2
  <2>4. nodes'[p] = [arg |-> args[p], dtype |-> c.dtype, array |-> c.array,
                     buf |-> c.buf, tmp |-> c.tmp, lob |-> c.lob]
    BY <2>2, <2>3, NodeParts
  <2>5. /\ c.dtype \in Types /\ c.array \in BOOLEAN /\ c.buf \in Unions
        /\ c.tmp \in BOOLEAN /\ c.lob \in SUBSET Lobs
    BY <2>2, NodeParts
  <2> QED
    BY <2>1, <2>2, <2>4, <2>5, MakeNode
<1>3. \A p \in Positions \ ps : nodes'[p] = nodes[p]
  BY <1>1
<1>4. nodes' = [p \in Positions |-> nodes'[p]]
  BY <1>1
<1>5. \A p \in Positions : nodes'[p] \in Nodes /\ nodes'[p].arg \in Args(p) \cup {Nothing}
  BY <1>2, <1>3 DEF NodesType
<1> QED
  BY <1>2, <1>3, <1>4, <1>5 DEF NodesType

LEMMA SetIsClean ==
    ASSUME NodesType, NEW ps \in SUBSET Positions, set(ps),
           \A p \in Positions : Clean(p, nodes[p])
    PROVE  \A p \in Positions : Clean(p, nodes'[p])
<1> SUFFICES ASSUME NEW p \in Positions PROVE Clean(p, nodes'[p])
  OBVIOUS
<1>1. CASE p \in ps
  <2>1. /\ nodes'[p].dtype = clearNode(p).dtype
        /\ nodes'[p].array = clearNode(p).array
        /\ nodes'[p].buf = clearNode(p).buf
    BY <1>1, SetParts
  <2>2. Clean(p, clearNode(p)) /\ clearNode(p).dtype # "TIMESTAMP"
    BY ClearedIsClean DEF NodesType, clearNode
  <2> QED
    BY <2>1, <2>2 DEF Clean
<1>2. CASE p \notin ps
  BY <1>2, SetParts
<1> QED
  BY <1>1, <1>2

LEMMA NewParts ==
    ASSUME NEW args, \A p \in Positions : args[p] \in Args(p) \cup {Nothing},
           nodes' = [p \in Positions |-> NewNode(args[p])]
    PROVE  /\ NodesType'
           /\ \A p \in Positions : Clean(p, nodes'[p]) /\ ~nodes'[p].array
<1>1. ASSUME NEW p \in Positions
      PROVE  /\ NewNode(args[p]) \in Nodes /\ NewNode(args[p]).arg = args[p]
             /\ NewNode(args[p]).dtype = "none" /\ ~NewNode(args[p]).array
  <2>1. args[p] \in Arguments
    BY ArgumentTypes
  <2> QED
    BY <2>1 DEF NewNode, Nodes, Types, Unions
<1>2. \A p \in Positions : nodes'[p] = NewNode(args[p])
  OBVIOUS
<1> QED
  BY <1>1, <1>2 DEF NodesType, Clean

(***************************************************************************)
(* bindOracle() refuses lists of different sizes.                          *)
(***************************************************************************)
LEMMA OracleAgrees ==
    ASSUME NodesType', is_select' \in BOOLEAN, bindOracle
    PROVE  /\ pos' = 1
           /\ status' = "failed" \/ (status' = "binding" /\ SizesAgree')
<1>1. pos' = 1
  BY DEF bindOracle
<1>2. CASE ~(is_select' /\ Sizes # {}) /\ ~mismatch /\ status' = "binding" /\ setArraySize
  <2>1. \A p \in Values : nodes'[p].arg.size \in Nat \cup {Scalar} /\ p \in Nat
    BY PositionTypes, ArgumentTypes DEF NodesType, Nodes
  <2>2. Scalar = -1
    BY ArgumentTypes
  <2>3. \A p, q \in Values : nodes'[p].arg.size > 0 /\ nodes'[q].arg.size > 0 =>
           nodes'[p].arg.size = nodes'[q].arg.size
    BY <1>2, <2>1, <2>2 DEF mismatch
  <2>4. \A s : s \in Sizes <=> s # Scalar /\ \E p \in Values : s = nodes'[p].arg.size
    BY DEF Sizes
  <2>5. CASE Sizes \ {0} = {}
    <3>1. array_size' = 0
      BY <1>2, <2>5 DEF setArraySize
    <3>2. ASSUME NEW p \in Values
          PROVE  ~(nodes'[p].arg.size > 0)
      <4>1. nodes'[p].arg.size \in Sizes => nodes'[p].arg.size = 0
        BY <2>5
      <4> QED
        BY <2>1, <2>2, <2>4, <4>1
    <3> QED
      BY <1>1, <1>2, <3>1, <3>2 DEF SizesAgree
  <2>6. CASE Sizes \ {0} # {}
    <3>1. array_size' \in Sizes \ {0}
      BY <1>2, <2>6 DEF setArraySize
    <3>2. PICK p \in Values : array_size' = nodes'[p].arg.size
      BY <2>4, <3>1
    <3>3. array_size' \in Nat /\ array_size' > 0
      BY <2>1, <2>2, <2>4, <3>1, <3>2
    <3>4. ~is_select'
      BY <1>2, <2>6
    <3> QED
      BY <1>1, <1>2, <2>3, <3>2, <3>3, <3>4 DEF SizesAgree
  <2> QED
    BY <2>5, <2>6
<1> QED
  BY <1>1, <1>2 DEF bindOracle

(***************************************************************************)
(***************************************************************************)
(* What is made for an argument.                                           *)
(***************************************************************************)
LEMMA MadeTypes ==
    ASSUME NEW p, NEW n \in Nodes, NEW k \in 0..Len(steps(n.arg)), n.arg.class # "null"
    PROVE  /\ dtypeOf(n.arg) \in {"INT", "STR", "LOB", "TIMESTAMP"}
           /\ unionOf(p, n, k) \in Unions
           /\ {steps(n.arg)[i] : i \in 1..k} \subseteq Lobs \cup {"datetime"}
           /\ n.arg.class = "blob" => {steps(n.arg)[i] : i \in 1..k} \subseteq Lobs
<1>1. n.arg.class \in Classes /\ n.buf \in Unions
  BY NodeParts, ArgumentTypes
<1>2. dtypeOf(n.arg) \in {"INT", "STR", "LOB", "TIMESTAMP"}
  BY <1>1 DEF dtypeOf, Classes
<1>3. unionOf(p, n, k) \in Unions
  BY <1>1 DEF unionOf, Unions
<1>4. steps(n.arg) \in {<<>>, <<"datetime">>, <<"descriptor", "temporary">>}
      /\ (n.arg.class = "blob" => steps(n.arg) = <<"descriptor", "temporary">>)
  BY DEF steps
<1>5. ASSUME NEW i \in 1..k
      PROVE  /\ steps(n.arg)[i] \in Lobs \cup {"datetime"}
             /\ n.arg.class = "blob" => steps(n.arg)[i] \in Lobs
  <2>1. i \in 1..Len(steps(n.arg))
    BY <1>4
  <2> QED
    BY <1>4, <2>1 DEF Lobs
<1> QED
  BY <1>2, <1>3, <1>5

LEMMA UnionTypes ==
    ASSUME NEW p, NEW n, NEW k, n.arg.class \in Classes \ {"null"}
    PROVE  /\ n.arg.class = "number" => unionOf(p, n, k) = n.buf
           /\ n.arg.class = "date" =>
                 unionOf(p, n, k) = (IF k = 1 THEN "datetime" ELSE "null")
           /\ n.arg.class = "string" /\ p \in Outputs => unionOf(p, n, k) = "buffer"
           /\ n.arg.class = "date" <=> dtypeOf(n.arg) = "TIMESTAMP"
<1>1. /\ n.arg.class = "number" => unionOf(p, n, k) = n.buf
      /\ n.arg.class = "date" => unionOf(p, n, k) = (IF k = 1 THEN "datetime" ELSE "null")
      /\ n.arg.class = "string" /\ p \in Outputs => unionOf(p, n, k) = "buffer"
  BY DEF unionOf
<1> QED
  BY <1>1 DEF dtypeOf, Classes

(***************************************************************************)
(* The node that is bound.                                                 *)
(***************************************************************************)
LEMMA ReplaceNode ==
    ASSUME NodesType, NEW p \in Positions, NEW m \in Nodes, m.arg = nodes[p].arg,
           nodes' = [nodes EXCEPT ![p] = m]
    PROVE  /\ NodesType' /\ nodes'[p] = m
           /\ \A q \in Positions : nodes'[q].arg = nodes[q].arg
           /\ \A q \in Positions : q # p => nodes'[q] = nodes[q]
BY DEF NodesType

Kept(p) ==
    /\ NodesType'
    /\ \A q \in Positions : nodes'[q].arg = nodes[q].arg
    /\ \A q \in Positions : q # p => nodes'[q] = nodes[q]

LEMMA ScalarParts ==
    ASSUME NodesType, NEW p \in Positions, NEW k \in 0..2, NEW ok \in BOOLEAN,
           bindScalar(p, k, ok)
    PROVE  /\ Kept(p)
           /\ k \in 0..Len(steps(nodes[p].arg)) /\ (ok => k = Len(steps(nodes[p].arg)))
           /\ \/ /\ UNCHANGED nodes
                 /\ nodes[p].arg.class = "null" \/ IsList(nodes[p].arg)
                 /\ ok => nodes[p].arg.class = "null"
              \/ /\ nodes[p].arg.class # "null"
                 /\ nodes'[p].dtype = dtypeOf(nodes[p].arg)
                 /\ nodes'[p].array = nodes[p].array
                 /\ nodes'[p].buf = unionOf(p, nodes[p], k)
                 /\ nodes[p].arg.class = "number" => nodes'[p].tmp
                 /\ nodes[p].arg.class = "blob" =>
                       {steps(nodes[p].arg)[i] : i \in 1..k} \subseteq nodes'[p].lob
<1>1. PICK n \in Nodes : n = nodes[p]
  BY DEF NodesType
<1>2. /\ ~IsList(n.arg) \/ ~ok
      /\ IF n.arg.class = "null" \/ IsList(n.arg) THEN k = 0 /\ UNCHANGED nodes
         ELSE nodes' = [nodes EXCEPT
                  ![p] = [n EXCEPT !.dtype = dtypeOf(n.arg), !.buf = unionOf(p, n, k),
                                   !.tmp = n.tmp \/ n.arg.class = "number",
                                   !.lob = IF n.arg.class = "blob"
                                           THEN n.lob \cup {steps(n.arg)[i] : i \in 1..k}
                                           ELSE n.lob]]
      /\ k \in 0..Len(steps(n.arg)) /\ (ok => k = Len(steps(n.arg)))
  BY <1>1 DEF bindScalar
<1>3. CASE n.arg.class = "null" \/ IsList(n.arg)
  BY <1>1, <1>2, <1>3 DEF Kept, NodesType
<1>4. CASE ~(n.arg.class = "null" \/ IsList(n.arg))
  <2>1. PICK a \in Arguments, d \in Types, f \in BOOLEAN, b \in Unions,
             t \in BOOLEAN, l \in SUBSET Lobs :
          /\ a = n.arg /\ d = dtypeOf(n.arg) /\ f = n.array /\ b = unionOf(p, n, k)
          /\ t = (n.tmp \/ n.arg.class = "number")
          /\ l = IF n.arg.class = "blob" THEN n.lob \cup {steps(n.arg)[i] : i \in 1..k}
                 ELSE n.lob
    <3>1. n.arg \in Arguments /\ n.array \in BOOLEAN /\ n.lob \in SUBSET Lobs
      BY NodeParts
    <3>2. /\ dtypeOf(n.arg) \in Types /\ unionOf(p, n, k) \in Unions
          /\ n.arg.class = "blob" => {steps(n.arg)[i] : i \in 1..k} \subseteq Lobs
      BY <1>2, <1>4, MadeTypes DEF Types
    <3>3. (IF n.arg.class = "blob" THEN n.lob \cup {steps(n.arg)[i] : i \in 1..k}
           ELSE n.lob) \in SUBSET Lobs
      BY <3>1, <3>2
    <3>4. (n.tmp \/ n.arg.class = "number") \in BOOLEAN
      OBVIOUS
    <3> QED
      BY <3>1, <3>2, <3>3, <3>4
  <2>2. PICK m : m = [arg |-> a, dtype |-> d, array |-> f, buf |-> b, tmp |-> t, lob |-> l]
    OBVIOUS
  <2>3. /\ m \in Nodes /\ m.arg = a /\ m.dtype = d /\ m.array = f /\ m.buf = b
        /\ m.tmp = t /\ m.lob = l
    BY <2>2, MakeNode
  <2>4. m = [n EXCEPT !.dtype = d, !.buf = b, !.tmp = t, !.lob = l]
    <3>1. n = [arg |-> n.arg, dtype |-> n.dtype, array |-> n.array, buf |-> n.buf,
               tmp |-> n.tmp, lob |-> n.lob]
      BY NodeParts
    <3>2. a = n.arg /\ f = n.array
      BY <2>1
    <3>3. PICK x : x = [n EXCEPT !.dtype = d, !.buf = b, !.tmp = t, !.lob = l]
      OBVIOUS
    <3>4. x = [arg |-> n.arg, dtype |-> d, array |-> n.array, buf |-> b, tmp |-> t, lob |-> l]
      BY <3>1, <3>3
    <3> QED
      BY <2>2, <3>2, <3>3, <3>4
  <2>5. nodes' = [nodes EXCEPT ![p] = m]
    BY <1>2, <1>4, <2>1, <2>4
  <2>6. Kept(p) /\ nodes'[p] = m
    BY <1>1, <2>1, <2>3, <2>5, ReplaceNode DEF Kept
  <2>7. n.arg.class = "number" => m.tmp
    BY <2>1, <2>3
  <2>8. n.arg.class = "blob" => {steps(n.arg)[i] : i \in 1..k} \subseteq m.lob
    BY <2>1, <2>3
  <2> QED
    BY <1>1, <1>2, <1>4, <2>1, <2>3, <2>6, <2>7, <2>8
<1> QED
  BY <1>3, <1>4

LEMMA ArrayParts ==
    ASSUME NodesType, NEW p \in Positions, NEW made \in BOOLEAN, NEW set_up \in BOOLEAN,
           NEW ok \in BOOLEAN, bindListValue(p, made, set_up, ok)
    PROVE  /\ Kept(p)
           /\ (ok => set_up) /\ (set_up => made)
           /\ nodes'[p].array
           /\ nodes'[p].buf = (IF made THEN "array" ELSE "null")
           /\ nodes'[p].dtype =
                 (IF set_up THEN arrayType(nodes[p].arg) ELSE nodes[p].dtype)
<1>1. PICK n \in Nodes : n = nodes[p]
  BY DEF NodesType
<1>2. /\ (ok => set_up) /\ (set_up => made)
      /\ nodes' = [nodes EXCEPT
             ![p] = [n EXCEPT !.array = TRUE,
                              !.buf = IF made THEN "array" ELSE "null",
                              !.dtype = IF set_up THEN arrayType(n.arg) ELSE n.dtype]]
  BY <1>1 DEF bindListValue
<1>3. PICK a \in Arguments, d \in Types, f \in BOOLEAN, b \in Unions,
           t \in BOOLEAN, l \in SUBSET Lobs :
        /\ a = n.arg /\ d = (IF set_up THEN arrayType(n.arg) ELSE n.dtype) /\ f = TRUE
        /\ b = (IF made THEN "array" ELSE "null") /\ t = n.tmp /\ l = n.lob
  <2>1. arrayType(n.arg) \in Types
    BY DEF arrayType, Types
  <2>2. (IF set_up THEN arrayType(n.arg) ELSE n.dtype) \in Types
    BY <2>1, NodeParts
  <2>3. (IF made THEN "array" ELSE "null") \in Unions
    BY DEF Unions
  <2> QED
    BY <2>2, <2>3, NodeParts
<1>4. PICK m : m = [arg |-> a, dtype |-> d, array |-> f, buf |-> b, tmp |-> t, lob |-> l]
  OBVIOUS
<1>5. m \in Nodes /\ m.arg = a /\ m.dtype = d /\ m.array = f /\ m.buf = b
  BY <1>4, MakeNode
<1>6. m = [n EXCEPT !.array = f, !.buf = b, !.dtype = d]
  <2>1. n = [arg |-> n.arg, dtype |-> n.dtype, array |-> n.array, buf |-> n.buf,
             tmp |-> n.tmp, lob |-> n.lob]
    BY NodeParts
  <2>2. a = n.arg /\ t = n.tmp /\ l = n.lob
    BY <1>3
  <2>3. PICK x : x = [n EXCEPT !.array = f, !.buf = b, !.dtype = d]
    OBVIOUS
  <2>4. x = [arg |-> n.arg, dtype |-> d, array |-> f, buf |-> b, tmp |-> n.tmp, lob |-> n.lob]
    BY <2>1, <2>3
  <2> QED
    BY <1>4, <2>2, <2>3, <2>4
<1>7. nodes' = [nodes EXCEPT ![p] = m]
  BY <1>2, <1>3, <1>6
<1>8. Kept(p) /\ nodes'[p] = m
  BY <1>1, <1>3, <1>5, <1>7, ReplaceNode DEF Kept
<1>9. m.array
  BY <1>3, <1>5
<1> QED
  BY <1>1, <1>2, <1>3, <1>5, <1>8, <1>9

LEMMA BindKeeps ==
    ASSUME NodesType, bindNode
    PROVE  pos \in Positions /\ Kept(pos)
BY ScalarParts, ArrayParts DEF bindNode

(***************************************************************************)
(* What the handle has of a position refers to what its node has.          *)
(***************************************************************************)
LEMMA ScalarRuns ==
    ASSUME NodesType, NEW p \in Positions, NEW k \in 0..2, bindScalar(p, k, TRUE)
    PROVE  at(p, nodes[p].arg) \in (owns(nodes'[p]) \cup {"node"}) \X {p}
<1> DEFINE arg == nodes[p].arg
           n == nodes'[p]
<1>1. /\ k = Len(steps(arg))
      /\ \/ arg.class = "null"
         \/ /\ arg.class # "null"
            /\ n.buf = unionOf(p, nodes[p], k)
            /\ arg.class = "number" => n.tmp
            /\ arg.class = "blob" => {steps(arg)[i] : i \in 1..k} \subseteq n.lob
  BY ScalarParts
<1>2. CASE arg.class = "blob"
  <2>1. steps(arg) = <<"descriptor", "temporary">>
    BY <1>2 DEF steps
  <2>2. k = 2 /\ steps(arg)[2] = "temporary"
    BY <1>1, <2>1
  <2>3. "temporary" \in n.lob
    BY <1>1, <1>2, <2>2
  <2>4. at(p, arg) = <<"temporary", p>>
    BY <1>2 DEF at
  <2> QED
    BY <2>3, <2>4 DEF owns
<1>3. CASE arg.class = "date"
  <2>1. steps(arg) = <<"datetime">> /\ unionOf(p, nodes[p], 1) = "datetime"
    BY <1>3 DEF steps, unionOf
  <2>2. n.buf = "datetime"
    BY <1>1, <1>3, <2>1
  <2>3. at(p, arg) = <<"datetime", p>>
    BY <1>3 DEF at
  <2> QED
    BY <2>2, <2>3 DEF owns
<1>4. CASE arg.class = "number"
  <2>1. at(p, arg) = <<"tmp", p>> /\ n.tmp
    BY <1>1, <1>4 DEF at
  <2>2. "tmp" \in owns(n)
    BY <2>1 DEF owns
  <2> QED
    BY <2>1, <2>2
<1>5. CASE arg.class = "string" /\ p \in Outputs
  <2>1. unionOf(p, nodes[p], k) = "buffer" /\ at(p, arg) = <<"buffer", p>>
    BY <1>5 DEF unionOf, at
  <2>2. n.buf = "buffer"
    BY <1>1, <1>5, <2>1
  <2> QED
    BY <2>1, <2>2 DEF owns
<1>6. CASE /\ arg.class \notin {"blob", "date", "number"}
           /\ ~(arg.class = "string" /\ p \in Outputs)
  <2>1. at(p, arg) = <<"node", p>>
    BY <1>6 DEF at
  <2> QED
    BY <2>1
<1> QED
  BY <1>2, <1>3, <1>4, <1>5, <1>6

LEMMA NodeRuns ==
    ASSUME NodesType, DOMAIN bound = Positions, bindNode
    PROVE  /\ DOMAIN bound' = Positions
           /\ status' # "failed" => \A p \in Positions :
                 IF p = pos THEN Runs(p)' ELSE bound'[p] = bound[p]
<1> DEFINE arg == nodes[pos].arg
<1>1. pos \in Positions /\ nodes'[pos].arg = arg
  BY BindKeeps DEF Kept
<1>2. PICK ok \in BOOLEAN :
         /\ IF array_size > 0
            THEN \E made, set_up \in BOOLEAN : bindListValue(pos, made, set_up, ok)
            ELSE \E k \in 0..2 : bindScalar(pos, k, ok)
         /\ status' # "failed" <=> ok
  BY DEF bindNode
<1>3. CASE array_size > 0
  <2>1. PICK made \in BOOLEAN, set_up \in BOOLEAN : bindListValue(pos, made, set_up, ok)
    BY <1>2, <1>3
  <2>2. bound' = IF ok THEN [bound EXCEPT ![pos] = [arg |-> arg, at |-> <<"array", pos>>]]
                 ELSE [q \in Positions |-> Unbound]
    BY <2>1 DEF bindListValue
  <2>3. ok => "array" \in owns(nodes'[pos])
    BY <1>1, <2>1, ArrayParts DEF owns
  <2>4. <<"array", pos>> \in {"array"} \X {pos}
    OBVIOUS
  <2>5. ASSUME ok
        PROVE  bound'[pos].arg = nodes'[pos].arg /\ bound'[pos].at = <<"array", pos>>
    BY <1>1, <2>2, <2>5
  <2> QED
    <3>1. DOMAIN bound' = Positions
      BY <1>1, <2>2
    <3>2. ok => \A p \in Positions : p # pos => bound'[p] = bound[p]
      BY <1>1, <2>2
    <3>3. ASSUME ok, NEW p \in Positions, p = pos
          PROVE  Runs(p)'
      BY <2>3, <2>4, <2>5, <3>3 DEF Runs
    <3> QED
      BY <1>2, <3>1, <3>2, <3>3
<1>4. CASE ~(array_size > 0)
  <2>1. PICK k \in 0..2 : bindScalar(pos, k, ok)
    BY <1>2, <1>4
  <2>2. bound' = IF ok THEN [bound EXCEPT ![pos] = [arg |-> arg, at |-> at(pos, arg)]]
                 ELSE [q \in Positions |-> Unbound]
    BY <2>1 DEF bindScalar
  <2>3. ASSUME ok
        PROVE  at(pos, arg) \in (owns(nodes'[pos]) \cup {"node"}) \X {pos}
    <3>1. ok = TRUE
      BY <2>3
    <3>2. bindScalar(pos, k, TRUE)
      BY <2>1, <3>1
    <3> QED
      BY <1>1, <3>2, ScalarRuns
  <2>4. ASSUME ok
        PROVE  bound'[pos].arg = nodes'[pos].arg /\ bound'[pos].at = at(pos, arg)
    BY <1>1, <2>2, <2>4
  <2> QED
    <3>1. DOMAIN bound' = Positions
      BY <1>1, <2>2
    <3>2. ok => \A p \in Positions : p # pos => bound'[p] = bound[p]
      BY <1>1, <2>2
    <3>3. ASSUME ok, NEW p \in Positions, p = pos
          PROVE  Runs(p)'
      BY <2>3, <2>4, <3>3 DEF Runs
    <3> QED
      BY <1>2, <3>1, <3>2, <3>3
<1> QED
  BY <1>3, <1>4

(***************************************************************************)
(* A node that is bound while it is no array, and with no array of dates,  *)
(* is clean after it was before.                                           *)
(***************************************************************************)
LEMMA ScalarIsClean ==
    ASSUME NodesType, NEW p \in Positions, NEW k \in 0..2, NEW ok \in BOOLEAN,
           bindScalar(p, k, ok), Clean(p, nodes[p]), ~nodes[p].array
    PROVE  Clean(p, nodes'[p]) /\ ~nodes'[p].array
<1> DEFINE arg == nodes[p].arg
<1>1. CASE UNCHANGED nodes
  BY <1>1
<1>2. CASE ~UNCHANGED nodes
  <2>1. /\ arg.class # "null" /\ nodes'[p].dtype = dtypeOf(arg) /\ ~nodes'[p].array
        /\ nodes'[p].buf = unionOf(p, nodes[p], k) /\ nodes'[p].arg = arg
    BY <1>2, ScalarParts DEF Kept
  <2>2. arg.class \in Classes \ {"null"}
    BY <2>1, ArgumentTypes DEF NodesType, Nodes
  <2>3. CASE arg.class = "date"
    <3>1. nodes'[p].dtype = "TIMESTAMP" /\ nodes'[p].buf \in {"null", "datetime"}
      BY <2>1, <2>2, <2>3, UnionTypes
    <3> QED
      BY <2>1, <2>3, <3>1 DEF Clean
  <2>4. CASE arg.class # "date"
    <3>1. nodes'[p].dtype # "TIMESTAMP"
      BY <2>1, <2>2, <2>4, UnionTypes
    <3>2. ASSUME p \in Outputs, nodes'[p].dtype = "STR"
          PROVE  nodes'[p].buf = "buffer"
      <4>1. arg.class \in {"int", "string"}
        BY <2>1, <2>4, <3>2, ArgumentTypes DEF NodesType
      <4>2. arg.class = "int" => dtypeOf(arg) = "INT"
        BY DEF dtypeOf
      <4>3. arg.class = "string"
        BY <2>1, <3>2, <4>1, <4>2
      <4> QED
        BY <2>1, <2>2, <3>2, <4>3, UnionTypes
    <3> QED
      BY <2>1, <3>1, <3>2 DEF Clean
  <2> QED
    BY <2>3, <2>4
<1> QED
  BY <1>1, <1>2

LEMMA NodeIsClean ==
    ASSUME NodesType, bindNode, ~astray', \A p \in Positions : Clean(p, nodes[p])
    PROVE  /\ \A p \in Positions : Clean(p, nodes'[p])
           /\ ~(array_size > 0) => ~nodes'[pos].array
<1>1. pos \in Positions /\ Kept(pos)
  BY BindKeeps
<1>2. ~nodes[pos].array /\ ~(array_size > 0 /\ nodes[pos].arg.class = "date")
  BY DEF bindNode
<1>3. Clean(pos, nodes'[pos]) /\ (~(array_size > 0) => ~nodes'[pos].array)
  <2>1. CASE array_size > 0
    <3>1. PICK made \in BOOLEAN, set_up \in BOOLEAN, ok \in BOOLEAN :
             bindListValue(pos, made, set_up, ok)
      BY <2>1 DEF bindNode
    <3>2. /\ nodes'[pos].array /\ nodes'[pos].buf \in {"null", "array"}
          /\ nodes'[pos].dtype \in {arrayType(nodes[pos].arg), nodes[pos].dtype}
      BY <1>1, <3>1, ArrayParts
    <3>3. arrayType(nodes[pos].arg) # "TIMESTAMP"
      BY <1>2, <2>1 DEF arrayType
    <3>4. nodes[pos].dtype # "TIMESTAMP"
      BY <1>1, <1>2, <2>1 DEF Clean
    <3> QED
      BY <2>1, <3>2, <3>3, <3>4 DEF Clean
  <2>2. CASE ~(array_size > 0)
    <3>1. PICK k \in 0..2, ok \in BOOLEAN : bindScalar(pos, k, ok)
      BY <2>2 DEF bindNode
    <3> QED
      BY <1>1, <1>2, <3>1, ScalarIsClean
  <2> QED
    BY <2>1, <2>2
<1>4. \A p \in Positions : p # pos => Clean(p, nodes'[p])
  BY <1>1 DEF Kept
<1> QED
  BY <1>3, <1>4

(***************************************************************************)
(* The nodes after the loss of the connection, and after their output was  *)
(* taken.                                                                  *)
(***************************************************************************)
LEMMA LostParts ==
    ASSUME NodesType, NEW times \in {1, 2}, clear(times)
    PROVE  /\ NodesType'
           /\ \A p \in Positions : nodes'[p].arg = nodes[p].arg
           /\ (\A p \in Positions : Clean(p, nodes[p])) =>
                 \A p \in Positions : Clean(p, nodes'[p])
<1>1. ASSUME NEW p \in Positions
      PROVE  /\ nodes'[p] \in Nodes /\ nodes'[p].arg = nodes[p].arg
             /\ Clean(p, nodes[p]) => Clean(p, nodes'[p])
  <2>1. PICK c \in Nodes : /\ c = clearNode(p) /\ c.arg = nodes[p].arg
                           /\ Clean(p, nodes[p]) => Clean(p, c)
    BY ClearedTypes, ClearedIsClean DEF NodesType, clearNode
  <2>2. PICK d \in Nodes : /\ d = clearedTwice(p) /\ d.arg = nodes[p].arg
                           /\ Clean(p, nodes[p]) => Clean(p, d)
    BY <2>1, ClearedTypes, ClearedIsClean DEF clearedTwice
  <2>3. nodes'[p] = IF times = 1 THEN c ELSE d
    BY <2>1, <2>2 DEF clear
  <2> QED
    BY <2>1, <2>2, <2>3
<1>2. nodes' = [p \in Positions |-> nodes'[p]]
  BY DEF clear
<1>3. \A p \in Positions : nodes'[p].arg \in Args(p) \cup {Nothing}
  BY <1>1 DEF NodesType
<1> QED
  BY <1>1, <1>2, <1>3 DEF NodesType

LEMMA OutputParts ==
    ASSUME NodesType, getOutput
    PROVE  /\ NodesType'
           /\ \A p \in Positions : /\ nodes'[p].arg = nodes[p].arg
                                   /\ nodes'[p].array = nodes[p].array
                                   /\ Clean(p, nodes[p]) => Clean(p, nodes'[p])
           /\ status' = "ready" => UNCHANGED nodes
           /\ status' \in {"ready", "taken"} /\ status = "ready"
           /\ UNCHANGED <<is_select, array_size, iters, pos, again, bound, astray>>
<1> DEFINE taken == {p \in Outputs : nodes[p].buf = "buffer"}
<1>1. /\ status = "ready"
      /\ status' = IF taken = {} THEN status ELSE "taken"
      /\ nodes' = [p \in Positions |->
            IF p \in taken THEN [nodes[p] EXCEPT !.buf = "null"] ELSE nodes[p]]
      /\ UNCHANGED <<is_select, array_size, iters, pos, again, bound, astray>>
  BY DEF getOutput
<1>2. ASSUME NEW p \in Positions
      PROVE  /\ nodes'[p] \in Nodes /\ nodes'[p].arg = nodes[p].arg
             /\ nodes'[p].array = nodes[p].array
             /\ Clean(p, nodes[p]) => Clean(p, nodes'[p])
             /\ p \notin taken => nodes'[p] = nodes[p]
  <2>1. PICK n \in Nodes : n = nodes[p]
    BY DEF NodesType
  <2>2. CASE p \notin taken
    BY <1>1, <2>1, <2>2
  <2>3. CASE p \in taken
    <3>1. n = [arg |-> n.arg, dtype |-> n.dtype, array |-> n.array, buf |-> n.buf,
               tmp |-> n.tmp, lob |-> n.lob]
      BY NodeParts
    <3>2. nodes'[p] = [n EXCEPT !.buf = "null"]
      BY <1>1, <2>1, <2>3
    <3>3. nodes'[p] = [arg |-> n.arg, dtype |-> n.dtype, array |-> n.array, buf |-> "null",
                       tmp |-> n.tmp, lob |-> n.lob]
      BY <3>1, <3>2
    <3>4. /\ nodes'[p] \in Nodes /\ nodes'[p].arg = n.arg /\ nodes'[p].dtype = n.dtype
          /\ nodes'[p].array = n.array /\ nodes'[p].buf = "null"
      <4>1. "null" \in Unions
        BY DEF Unions
      <4> QED
        BY <3>3, <4>1, NodeParts, MakeNode
    <3> QED
      BY <2>1, <2>3, <3>4 DEF Clean
  <2> QED
    BY <2>2, <2>3
<1>3. nodes' = [p \in Positions |-> nodes'[p]]
  BY <1>1
<1>4. NodesType'
  <2>1. \A p \in Positions : nodes'[p].arg \in Args(p) \cup {Nothing}
    BY <1>2 DEF NodesType
  <2> QED
    BY <1>2, <1>3, <2>1 DEF NodesType
<1>5. ASSUME status' = "ready" PROVE UNCHANGED nodes
  <2>1. taken = {}
    BY <1>1, <1>5
  <2>2. \A p \in Positions : nodes'[p] = nodes[p]
    BY <1>2, <2>1
  <2> QED
    BY <1>3, <2>2 DEF NodesType
<1> QED
  BY <1>1, <1>2, <1>4, <1>5

-----------------------------------------------------------------------------
(***************************************************************************)
(* Every step keeps what the handle has in agreement with the nodes.       *)
(***************************************************************************)
LEMMA BindStep == BindInv /\ [Next]_vars => BindInv'
<1> SUFFICES ASSUME BindInv, [Next]_vars
             PROVE  BindInv'
  OBVIOUS
<1>0. NodesType /\ DOMAIN bound = Positions /\ pos \in Nat /\ is_select \in BOOLEAN
      /\ again \in BOOLEAN
  BY DEF BindInv
<1>1. ASSUME NodesType', DOMAIN bound' = Positions, is_select' \in BOOLEAN, bindOracle,
             again' = FALSE
      PROVE  BindInv'
  <2>1. /\ pos' = 1
        /\ status' = "failed" \/ (status' = "binding" /\ SizesAgree')
    BY <1>1, OracleAgrees
  <2>2. \A p \in Positions : ~(p < 1)
    BY PositionsAssumption
  <2> QED
    BY <1>1, <2>1, <2>2 DEF BindInv
<1>2. CASE prepare
  <2>1. NodesType' /\ is_select' \in BOOLEAN
    <3>1. PICK args \in ArgLists(Positions) : nodes' = [p \in Positions |-> NewNode(args[p])]
      BY <1>2 DEF prepare
    <3>2. \A p \in Positions : args[p] \in Args(p) \cup {Nothing}
      BY DEF ArgLists
    <3> QED
      BY <1>2, <3>1, <3>2, NewParts DEF prepare
  <2>2. again' = FALSE /\ UNCHANGED bound
    BY <1>2 DEF prepare
  <2>3. CASE bindOracle
    BY <1>0, <1>1, <2>1, <2>2, <2>3
  <2>4. CASE status' = "unusable" /\ pos' = 1
    BY <1>0, <2>1, <2>2, <2>4 DEF BindInv
  <2> QED
    BY <1>2, <2>3, <2>4 DEF prepare
<1>3. ASSUME NEW ps \in BindSets, bind(ps)
      PROVE  BindInv'
  <2>1. \A s \in SUBSET ps : s \in SUBSET Positions
    BY DEF Positions, BindSets
  <2>2. /\ DOMAIN bound' = Positions /\ again' = FALSE /\ UNCHANGED is_select
        /\ \/ set(ps) /\ bindOracle
           \/ /\ \E last \in ps : set({p \in ps : p <= last})
              /\ status' = "failed" /\ UNCHANGED pos
    BY <1>3 DEF bind
  <2>3. CASE set(ps) /\ bindOracle
    BY <1>0, <1>1, <2>1, <2>2, <2>3, SetParts
  <2>4. CASE (\E last \in ps : set({p \in ps : p <= last})) /\ status' = "failed"
             /\ UNCHANGED pos
    <3>1. NodesType'
      BY <1>0, <2>1, <2>4, SetParts
    <3> QED
      BY <1>0, <2>2, <2>4, <3>1 DEF BindInv
  <2> QED
    BY <2>2, <2>3, <2>4
<1>4. CASE bindNode
  <2>1. /\ pos \in Positions /\ status = "binding"
        /\ UNCHANGED <<is_select, array_size>>
        /\ status' \in {"failed", "binding", "retry", "ready"}
        /\ status' = "binding" => pos' = pos + 1
        /\ status' \in {"binding", "retry"} => UNCHANGED <<iters, again>>
        /\ status' \in {"retry", "ready"} => pos + 1 \notin Positions
        /\ status' = "retry" => again
        /\ pos' \in {1, pos + 1} /\ again' \in {again, FALSE}
    BY <1>4 DEF bindNode
  <2>2. NodesType' /\ \A p \in Positions : nodes'[p].arg = nodes[p].arg
    BY <1>0, <1>4, BindKeeps DEF Kept
  <2>3. SizesAgree /\ (again => iters = Iterations)
    BY <2>1 DEF BindInv
  <2>4. SizesAgree'
    BY <2>1, <2>2, <2>3, PositionTypes DEF SizesAgree
  <2>5. status' \in {"binding", "retry"} /\ again' => iters' = Iterations'
    BY <2>1, <2>3 DEF Iterations
  <2>6. ASSUME NEW p \in Positions, p <= pos, status' # "failed"
        PROVE  Runs(p)'
    <3>1. CASE p = pos
      BY <1>0, <1>4, <2>6, <3>1, NodeRuns
    <3>2. CASE p # pos
      <4>1. p < pos
        BY <1>0, <2>6, <3>2, PositionTypes
      <4>2. Runs(p)
        BY <2>1, <4>1 DEF BindInv
      <4>3. bound'[p] = bound[p] /\ nodes'[p] = nodes[p]
        BY <1>0, <1>4, <2>6, <3>2, NodeRuns, BindKeeps DEF Kept
      <4> QED
        BY <4>2, <4>3 DEF Runs
    <3> QED
      BY <3>1, <3>2
  <2>7. pos + 1 \notin Positions => \A p \in Positions : p <= pos
    <3> SUFFICES ASSUME NEW p \in Positions, ~(p <= pos)
                 PROVE  pos + 1 \in Positions
      OBVIOUS
    <3>1. pos + 1 \in 1..p
      BY <1>0, PositionTypes
    <3> QED
      BY <3>1, PositionsAssumption
  <2>8. status' = "binding" => \A p \in Positions : p < pos' => Runs(p)'
    BY <1>0, <2>1, <2>6, PositionTypes
  <2>9. status' \in {"ready", "retry"} => \A p \in Positions : Runs(p)'
    BY <2>1, <2>6, <2>7
  <2>10. DOMAIN bound' = Positions
    BY <1>0, <1>4, NodeRuns
  <2>11. pos' \in Nat /\ is_select' \in BOOLEAN /\ again' \in BOOLEAN
    <3>1. is_select \in BOOLEAN /\ again \in BOOLEAN
      BY DEF BindInv
    <3>2. pos' \in Nat
      BY <2>1, PositionTypes
    <3> QED
      BY <2>1, <3>1, <3>2
  <2>12. status' = "retry" => again'
    BY <2>1
  <2>13. status' \in {"binding", "retry"} /\ again' => iters' = Iterations'
    BY <2>5
  <2> QED
    BY <2>2, <2>4, <2>8, <2>9, <2>10, <2>11, <2>12, <2>13 DEF BindInv
<1>5. CASE UNCHANGED vars
  BY <1>5 DEF vars, BindInv, NodesType, SizesAgree, Iterations, Runs
<1>6. CASE exec
  BY <1>5, <1>6 DEF exec
<1>7. CASE execLost
  <2>1. PICK times \in {1, 2} : clear(times)
    BY <1>7 DEF execLost
  <2>2. NodesType' /\ \A p \in Positions : nodes'[p].arg = nodes[p].arg
    BY <1>0, <2>1, LostParts
  <2>3. DOMAIN bound' = Positions
    BY <2>1 DEF clear
  <2>4. status = "ready" /\ UNCHANGED is_select /\ SizesAgree
    BY <1>7 DEF execLost, BindInv
  <2>5. CASE iters' = Iterations /\ again' = TRUE /\ bindOracle
    <3>1. /\ pos' = 1
          /\ status' = "failed" \/ (status' = "binding" /\ SizesAgree')
      BY <1>0, <2>2, <2>4, <2>5, OracleAgrees
    <3>2. SizesAgree' => array_size' = array_size
      BY <2>2, <2>4, PositionTypes DEF SizesAgree
    <3>3. SizesAgree' => iters' = Iterations'
      BY <2>4, <2>5, <3>2 DEF Iterations
    <3>4. \A p \in Positions : ~(p < 1)
      BY PositionsAssumption
    <3> QED
      BY <1>0, <2>2, <2>3, <2>4, <2>5, <3>1, <3>3, <3>4 DEF BindInv
  <2>6. CASE status' = "unusable" /\ UNCHANGED <<array_size, pos, again>>
    BY <1>0, <2>2, <2>3, <2>4, <2>6 DEF BindInv
  <2> QED
    BY <1>7, <2>5, <2>6 DEF execLost, rebindAbortedConnection
<1>8. CASE retry
  <2>1. SizesAgree /\ \A p \in Positions : Runs(p)
    BY <1>8 DEF retry, BindInv
  <2>2. NodesType' /\ SizesAgree' /\ \A p \in Positions : Runs(p)'
    BY <1>0, <1>8, <2>1 DEF retry, NodesType, SizesAgree, Runs
  <2> QED
    BY <1>0, <1>8, <2>2 DEF retry, BindInv
<1>9. CASE getOutput
  <2>1. /\ NodesType' /\ \A p \in Positions : nodes'[p].arg = nodes[p].arg
        /\ status' = "ready" => UNCHANGED nodes
        /\ status' \in {"ready", "taken"} /\ status = "ready"
        /\ UNCHANGED <<is_select, array_size, iters, pos, again, bound>>
    BY <1>0, <1>9, OutputParts
  <2>2. SizesAgree /\ \A p \in Positions : Runs(p)
    BY <2>1 DEF BindInv
  <2>3. SizesAgree'
    BY <2>1, <2>2, PositionTypes DEF SizesAgree
  <2>4. status' = "ready" => \A p \in Positions : Runs(p)'
    BY <2>1, <2>2 DEF Runs
  <2> QED
    BY <1>0, <2>1, <2>3, <2>4 DEF BindInv
<1>10. CASE reset
  <2>1. /\ nodes' = [p \in Positions |-> NewNode(Nothing)]
        /\ bound' = [p \in Positions |-> Unbound]
        /\ status' = "none" /\ is_select' = FALSE /\ pos' = 1 /\ again' = FALSE
    BY <1>10 DEF reset
  <2>2. NodesType'
    <3>1. PICK args : args = [p \in Positions |-> Nothing]
      OBVIOUS
    <3>2. nodes' = [p \in Positions |-> NewNode(args[p])]
      BY <2>1, <3>1
    <3> QED
      BY <3>1, <3>2, NewParts
  <2> QED
    BY <2>1, <2>2 DEF BindInv
<1>11. CASE undefined
  <2>1. /\ status' = "undefined"
        /\ UNCHANGED <<is_select, nodes, array_size, iters, pos, again, bound>>
    BY <1>11 DEF undefined
  <2> QED
    BY <1>0, <2>1 DEF BindInv, NodesType
<1> QED
  BY <1>2, <1>3, <1>4, <1>5, <1>6, <1>7, <1>8, <1>9, <1>10, <1>11 DEF Next

LEMMA InitTypes ==
    ASSUME Init
    PROVE  NodesType /\ \A p \in Positions : Clean(p, nodes[p]) /\ ~nodes[p].array
<1>1. nodes = [p \in Positions |-> NewNode(Nothing)]
  BY DEF Init
<1>2. /\ NewNode(Nothing) \in Nodes /\ NewNode(Nothing).arg = Nothing
      /\ NewNode(Nothing).dtype = "none" /\ ~NewNode(Nothing).array
  BY ArgumentTypes DEF NewNode, Nodes, Types, Unions
<1> QED
  BY <1>1, <1>2 DEF NodesType, Clean

LEMMA BindInvHolds == Spec => []BindInv
<1>1. ASSUME Init
      PROVE  BindInv
  <2>1. NodesType
    BY <1>1, InitTypes
  <2>2. /\ status = "none" /\ is_select = FALSE /\ again = FALSE /\ pos = 1
        /\ bound = [p \in Positions |-> Unbound]
    BY <1>1 DEF Init
  <2> QED
    BY <2>1, <2>2 DEF BindInv
<1> QED
  BY <1>1, BindStep, PTL DEF Spec

(***************************************************************************)
(* No value is an empty list.                                              *)
(***************************************************************************)
NoEmptyLists == \A p \in Values : \A arg \in Args(p) : arg.size # 0

(***************************************************************************)
(* A statement runs with its arguments: the handle has the last argument   *)
(* of every position, in memory that its node still has, and the lists are *)
(* as long as the iterations, also after the statement was bound again on  *)
(* a new session (rebindAbortedConnection()).                              *)
(***************************************************************************)
THEOREM ArgumentsAreBound ==
    ASSUME NoEmptyLists
    PROVE  Spec => []RunsWithItsArguments
<1>1. BindInv => RunsWithItsArguments
  <2> SUFFICES ASSUME BindInv, status \in {"ready", "retry"}
               PROVE  /\ \A p \in Positions : Runs(p) /\ (IsList(nodes[p].arg) =>
                                                  nodes[p].arg.size = Iterations)
                      /\ status = "retry" => iters = Iterations
    BY DEF RunsWithItsArguments, Runs
  <2>1. /\ NodesType /\ SizesAgree /\ \A p \in Positions : Runs(p)
        /\ status = "retry" => iters = Iterations
    BY DEF BindInv
  <2>2. ASSUME NEW p \in Positions, IsList(nodes[p].arg)
        PROVE  nodes[p].arg.size = Iterations
    <3>1. nodes[p].arg \in Arguments /\ nodes[p].arg.size \in Nat
      BY <2>1, <2>2, ArgumentTypes DEF NodesType, Nodes, IsList
    <3>2. p \in Values /\ nodes[p].arg \in Args(p)
      BY <2>1, <2>2, <3>1, ArgumentTypes DEF NodesType, Positions
    <3>3. nodes[p].arg.size > 0
      BY <3>1, <3>2 DEF NoEmptyLists
    <3> QED
      BY <2>1, <3>2, <3>3 DEF SizesAgree, Iterations
  <2> QED
    BY <2>1, <2>2
<1> QED
  BY <1>1, BindInvHolds, PTL

-----------------------------------------------------------------------------
(***************************************************************************)
(* Every step keeps the nodes clean as long as nothing went astray.        *)
(***************************************************************************)
LEMMA OracleStarts ==
    ASSUME bindOracle
    PROVE  pos' = 1 /\ status' \in {"failed", "binding"}
BY DEF bindOracle

LEMMA CleanStep == BindInv /\ CleanInv /\ [Next]_vars => CleanInv'
<1> SUFFICES ASSUME BindInv, CleanInv, [Next]_vars
             PROVE  CleanInv'
  OBVIOUS
<1>0. NodesType /\ pos \in Nat /\ astray \in BOOLEAN
  BY DEF BindInv, CleanInv
<1>1. ASSUME ~astray
      PROVE  /\ status # "undefined"
             /\ \A p \in Positions : Clean(p, nodes[p])
  BY <1>1 DEF CleanInv
<1>2. \A p \in Positions : ~(p < 1)
  BY PositionsAssumption
<1>3. CASE prepare
  <2>1. PICK args \in ArgLists(Positions) : nodes' = [p \in Positions |-> NewNode(args[p])]
    BY <1>3 DEF prepare
  <2>2. \A p \in Positions : args[p] \in Args(p) \cup {Nothing}
    BY DEF ArgLists
  <2>3. \A p \in Positions : Clean(p, nodes'[p])
    BY <2>1, <2>2, NewParts
  <2>4. status' \in {"failed", "binding", "unusable"} /\ pos' = 1 /\ UNCHANGED astray
    BY <1>3, OracleStarts DEF prepare
  <2> QED
    BY <1>0, <1>2, <2>3, <2>4 DEF CleanInv
<1>4. ASSUME NEW ps \in BindSets, bind(ps)
      PROVE  CleanInv'
  <2>1. \A s \in SUBSET ps : s \in SUBSET Positions
    BY DEF Positions, BindSets
  <2>2. /\ UNCHANGED astray
        /\ \/ set(ps) /\ bindOracle
           \/ (\E last \in ps : set({p \in ps : p <= last})) /\ status' = "failed"
    BY <1>4 DEF bind
  <2>3. PICK s \in SUBSET Positions : set(s)
    BY <2>1, <2>2
  <2>4. ~astray => \A p \in Positions : Clean(p, nodes'[p])
    BY <1>0, <1>1, <2>3, SetIsClean
  <2>5. status' = "failed" \/ (status' = "binding" /\ pos' = 1)
    BY <2>2, OracleStarts
  <2> QED
    BY <1>0, <1>2, <2>2, <2>4, <2>5 DEF CleanInv
<1>5. CASE bindNode
  <2>1. /\ pos \in Positions /\ status = "binding" /\ UNCHANGED array_size
        /\ status' \in {"failed", "binding", "retry", "ready"}
        /\ status' = "binding" => pos' = pos + 1
        /\ status' \in {"retry", "ready"} => pos + 1 \notin Positions
        /\ astray' \in BOOLEAN /\ (~astray' => ~astray)
    BY <1>0, <1>5 DEF bindNode
  <2> SUFFICES ASSUME ~astray' PROVE CleanInv'
    BY <2>1 DEF CleanInv
  <2>2. /\ \A p \in Positions : Clean(p, nodes'[p])
        /\ ~(array_size > 0) => ~nodes'[pos].array
    BY <1>0, <1>1, <1>5, <2>1, NodeIsClean
  <2>3. ASSUME ~(array_size > 0), NEW p \in Positions, p <= pos
        PROVE  ~nodes'[p].array
    <3>1. CASE p = pos
      BY <2>2, <2>3, <3>1
    <3>2. CASE p # pos
      <4>1. p < pos
        BY <1>0, <2>3, <3>2, PositionTypes
      <4>2. ~nodes[p].array
        BY <2>1, <2>3, <4>1 DEF CleanInv
      <4> QED
        BY <1>0, <1>5, <3>2, <4>2, BindKeeps DEF Kept
    <3> QED
      BY <3>1, <3>2
  <2>4. pos + 1 \notin Positions => \A p \in Positions : p <= pos
    <3> SUFFICES ASSUME NEW p \in Positions, ~(p <= pos)
                 PROVE  pos + 1 \in Positions
      OBVIOUS
    <3>1. pos + 1 \in 1..p
      BY <1>0, PositionTypes
    <3> QED
      BY <3>1, PositionsAssumption
  <2>5. status' = "binding" /\ ~(array_size' > 0) =>
           \A p \in Positions : p < pos' => ~nodes'[p].array
    BY <1>0, <2>1, <2>3, PositionTypes
  <2>6. status' \in {"ready", "retry"} /\ ~(array_size' > 0) =>
           \A p \in Positions : ~nodes'[p].array
    BY <2>1, <2>3, <2>4
  <2> QED
    BY <2>1, <2>2, <2>5, <2>6 DEF CleanInv
<1>6. CASE UNCHANGED vars
  BY <1>6 DEF vars, CleanInv, Clean
<1>7. CASE exec
  BY <1>6, <1>7 DEF exec
<1>8. CASE execLost
  <2>1. PICK times \in {1, 2} : clear(times)
    BY <1>8 DEF execLost
  <2>2. ~astray => \A p \in Positions : Clean(p, nodes'[p])
    BY <1>0, <1>1, <2>1, LostParts
  <2>3. UNCHANGED astray /\ (status' = "unusable" \/ bindOracle)
    BY <1>8 DEF execLost, rebindAbortedConnection
  <2>4. status' \in {"failed", "unusable"} \/ (status' = "binding" /\ pos' = 1)
    BY <2>3, OracleStarts
  <2> QED
    BY <1>0, <1>2, <2>2, <2>3, <2>4 DEF CleanInv
<1>9. CASE retry
  <2>1. status = "retry" /\ status' = "ready" /\ UNCHANGED <<nodes, array_size, astray>>
    BY <1>9 DEF retry
  <2> QED
    BY <1>0, <2>1 DEF CleanInv, Clean
<1>10. CASE getOutput
  <2>1. /\ \A p \in Positions : /\ nodes'[p].array = nodes[p].array
                                /\ Clean(p, nodes[p]) => Clean(p, nodes'[p])
        /\ status' \in {"ready", "taken"} /\ status = "ready"
        /\ UNCHANGED <<array_size, astray>>
    BY <1>0, <1>10, OutputParts
  <2> QED
    BY <1>0, <2>1 DEF CleanInv
<1>11. CASE reset
  <2>1. PICK args : args = [p \in Positions |-> Nothing]
    OBVIOUS
  <2>2. /\ nodes' = [p \in Positions |-> NewNode(args[p])]
        /\ status' = "none" /\ astray' = FALSE
    BY <1>11, <2>1 DEF reset
  <2>3. \A p \in Positions : Clean(p, nodes'[p])
    BY <2>1, <2>2, NewParts
  <2> QED
    BY <2>2, <2>3 DEF CleanInv
<1>12. CASE undefined
  <2> SUFFICES ASSUME ~astray PROVE FALSE
    BY <1>0, <1>12 DEF undefined, CleanInv
  <2>1. \A p \in Positions : ~strays(p, nodes[p])
    BY <1>1, CleanIsOwn
  <2>2. \A p \in Positions : ~strays(p, clearNode(p))
    BY <1>0, <1>1, CleanIsOwn, ClearedIsClean DEF NodesType, clearNode
  <2>3. status = "ready" /\ array_size = 0 => \A p \in Outputs : ~nodes[p].array
    BY DEF CleanInv, Positions
  <2>4. \A ps \in BindSets : ps \subseteq Positions
    BY DEF BindSets, Positions
  <2>5. \/ \E ps \in BindSets : Strays(ps, nodes)
        \/ Strays(Positions, nodes)
        \/ Strays(Positions, [p \in Positions |-> clearNode(p)])
        \/ status = "ready" /\ array_size = 0 /\ \E p \in Outputs : nodes[p].array
    BY <1>12 DEF undefined
  <2> QED
    BY <2>1, <2>2, <2>3, <2>4, <2>5 DEF Strays
<1> QED
  BY <1>3, <1>4, <1>5, <1>6, <1>7, <1>8, <1>9, <1>10, <1>11, <1>12 DEF Next

(***************************************************************************)
(* The memory of a statement is damaged only if a node was bound while it  *)
(* was an array, or with an array of dates: without one, nothing that is   *)
(* bound, bound again, fails or is lost frees or reads what is not the     *)
(* node's (resetValue(), clearPlaceholder()).                              *)
(***************************************************************************)
THEOREM DamageIsOfArrays == Spec => []DamageNeedsArray
<1>1. Init => CleanInv
  BY InitTypes DEF Init, CleanInv
<1>2. CleanInv => DamageNeedsArray
  BY DEF CleanInv, DamageNeedsArray
<1> QED
  BY <1>1, <1>2, BindInvHolds, CleanStep, PTL DEF Spec
=============================================================================
