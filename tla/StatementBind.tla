---------------------------- MODULE StatementBind ----------------------------
(***************************************************************************)
(* The binds of a prepared statement (QorePreparedStatement.cpp): its      *)
(* arguments are bound by position to buffers, descriptors, temporary LOBs *)
(* and array binds that the bind nodes own; they are bound again with new  *)
(* arguments, and on a new session when the connection is lost.            *)
(*                                                                         *)
(* A connection is lost only while a statement is executed, for the first  *)
(* time (OracleConnection has the other cases).  A node that frees through *)
(* a pointer that is not its own has an undefined effect: the statement is *)
(* followed no further.                                                    *)
(***************************************************************************)
EXTENDS Integers, Sequences

CONSTANTS
    Values,     \* the positions of values
    Outputs,    \* the positions of output placeholders
    Args(_)     \* the arguments of a position: a class and a size

Positions == Values \cup Outputs

ASSUME PositionsAssumption ==
    /\ Values \cap Outputs = {}
    /\ Positions \subseteq Nat \ {0} /\ \A p \in Positions : 1..p \subseteq Positions

VARIABLES
    status,     \* none, binding, ready, failed, taken, unusable, retry or undefined
    is_select,
    nodes,      \* node_list
    array_size,
    iters,      \* the iterations of an execution whose connection was lost
    pos,        \* the position that is bound next
    again,      \* the binding is that of rebindAbortedConnection()
    bound,      \* what a bindOracle() that has not failed gave the handle
    astray      \* history: a node was bound while it was an array, or with an
                \* array of dates

vars == <<status, is_select, nodes, array_size, iters, pos, again, bound, astray>>

(***************************************************************************)
(* An argument: "null", "int" (in the node itself), "string" (in the       *)
(* value), "number" (a temporary string), "blob" (large) or "date"; size   *)
(* is the length of a list of them, or Scalar.                             *)
(***************************************************************************)
Scalar == -1
Classes == {"null", "int", "string", "number", "blob", "date"}
Arguments == [class : Classes, size : Nat \cup {Scalar}]
IsList(arg) == arg.size # Scalar

ASSUME ArgsAssumption ==
    /\ \A p \in Positions : Args(p) \subseteq Arguments
    /\ \A p \in Outputs : \A arg \in Args(p) :
        arg.class \in {"int", "string", "date"} /\ ~IsList(arg)

Nothing == [class |-> "null", size |-> Scalar]
Unbound == [arg |-> Nothing, at |-> <<"none", 0>>]

(***************************************************************************)
(* A bind node.  buf is what its union holds: "null", a "value", its own   *)
(* "buffer", "datetime" or "array", or the pointer to a deleted array      *)
(* ("stale"); tmp is the temporary string, lob what strlob has.            *)
(***************************************************************************)
NewNode(arg) ==
    [arg |-> arg, dtype |-> "none", array |-> FALSE, buf |-> "null",
     tmp |-> FALSE, lob |-> {}]

owns(n) ==
    ({n.buf} \cap {"buffer", "datetime", "array"}) \cup n.lob
        \cup {tag \in {"tmp"} : n.tmp}

-----------------------------------------------------------------------------
(***************************************************************************)
(* resetValue(): the type of an array bind is kept, and so is its pointer. *)
(***************************************************************************)
resetValue(n) ==
    IF n.dtype = "none" THEN n
    ELSE IF n.array
    THEN [n EXCEPT !.array = FALSE, !.tmp = FALSE,
                   !.buf = IF @ = "null" THEN @ ELSE "stale"]
    ELSE [n EXCEPT !.dtype = "none", !.tmp = FALSE, !.lob = {},
                   !.buf = IF n.dtype = "TIMESTAMP" /\ n.lob = {} THEN "null" ELSE @]

clearPlaceholder(n) ==
    IF n.dtype = "none" THEN n
    ELSE [n EXCEPT !.dtype = "none", !.array = FALSE, !.tmp = FALSE,
                   !.buf = IF @ = "null" THEN @ ELSE "stale"]

Cleared(p, n) == IF p \in Values THEN resetValue(n) ELSE clearPlaceholder(n)
clearNode(p) == Cleared(p, nodes[p])

(***************************************************************************)
(* What is freed is not the node's: an array bind is deleted, a descriptor *)
(* or a buffer freed through a union that holds something else.            *)
(***************************************************************************)
strays(p, n) ==
    /\ n.dtype # "none"
    /\ IF n.array THEN n.buf \notin {"null", "array"}
       ELSE \/ n.dtype = "TIMESTAMP" /\ n.lob = {} /\ n.buf \notin {"null", "datetime"}
            \/ p \in Outputs /\ n.dtype = "STR" /\ n.buf \notin {"null", "buffer"}

Strays(ps, ns) == \E p \in ps : strays(p, ns[p])

-----------------------------------------------------------------------------
(***************************************************************************)
(* Binding a node.  steps: what is allocated with calls that can fail, in  *)
(* this order; a bind can fail after any of them or at its end.            *)
(***************************************************************************)
dtypeOf(arg) ==
    CASE arg.class = "int"  -> "INT"
      [] arg.class = "blob" -> "LOB"
      [] arg.class = "date" -> "TIMESTAMP"
      [] arg.class \in {"string", "number"} -> "STR"

steps(arg) ==
    CASE arg.class = "blob" -> <<"descriptor", "temporary">>
      [] arg.class = "date" -> <<"datetime">>
      [] OTHER -> <<>>

\* mutation: the union is not set to null before its descriptor is allocated
unionOf_KeepsPointer(p, n, k) ==
    CASE n.arg.class = "number" -> n.buf
      [] n.arg.class = "date" -> IF k = 1 THEN "datetime" ELSE n.buf
      [] n.arg.class = "string" /\ p \in Outputs -> "buffer"
      [] OTHER -> "value"

unionOf(p, n, k) ==
    CASE n.arg.class = "number" -> n.buf
      [] n.arg.class = "date" -> IF k = 1 THEN "datetime" ELSE "null"
      [] n.arg.class = "string" /\ p \in Outputs -> "buffer"
      [] OTHER -> "value"

(***************************************************************************)
(* What the statement handle refers to: the node, its value or what was    *)
(* allocated for it.                                                       *)
(***************************************************************************)
at(p, arg) ==
    CASE arg.class = "blob" -> <<"temporary", p>>
      [] arg.class = "date" -> <<"datetime", p>>
      [] arg.class = "number" -> <<"tmp", p>>
      [] arg.class = "string" /\ p \in Outputs -> <<"buffer", p>>
      [] OTHER -> <<"node", p>>

(***************************************************************************)
(* bindValue() and bindPlaceholder() without an array: a NULL leaves the   *)
(* type of the node as it is.  An empty list cannot be bound.              *)
(***************************************************************************)
bindScalar(p, k, ok) ==
    LET n == nodes[p]
    IN  /\ ~IsList(n.arg) \/ ~ok
        /\ IF n.arg.class = "null" \/ IsList(n.arg) THEN k = 0 /\ UNCHANGED nodes
           ELSE nodes' = [nodes EXCEPT
                    ![p] = [n EXCEPT !.dtype = dtypeOf(n.arg), !.buf = unionOf(p, n, k),
                                     !.tmp = @ \/ n.arg.class = "number",
                                     !.lob = IF n.arg.class = "blob"
                                             THEN @ \cup {steps(n.arg)[i] : i \in 1..k}
                                             ELSE @]]
        /\ k \in 0..Len(steps(n.arg)) /\ (ok => k = Len(steps(n.arg)))
        /\ bound' = IF ok THEN [bound EXCEPT ![p] = [arg |-> n.arg, at |-> at(p, n.arg)]]
                    ELSE [q \in Positions |-> Unbound]

(***************************************************************************)
(* bindListValue() and the placeholders of an array bind: the node is an   *)
(* array first, then its array bind is made, unless the type of the value  *)
(* or placeholder is not supported (it owns what its elements need), and   *)
(* set up; the type is set by a setup that does not fail.                  *)
(***************************************************************************)
arrayType(arg) ==
    CASE arg.class = "date" /\ arg.size # 0 -> "TIMESTAMP"
      [] arg.class = "blob" /\ arg.size # 0 -> "LOB"
      [] arg.class = "int" /\ ~IsList(arg) -> "INT"
      [] OTHER -> "STR"

bindListValue(p, made, set_up, ok) ==
    LET n == nodes[p]
    IN  /\ (ok => set_up) /\ (set_up => made)
        /\ p \in Outputs => (made <=> n.arg.class \in {"string", "int"})
        /\ nodes' = [nodes EXCEPT
               ![p] = [n EXCEPT !.array = TRUE,
                                !.buf = IF made THEN "array" ELSE "null",
                                !.dtype = IF set_up THEN arrayType(n.arg) ELSE @]]
        /\ bound' = IF ok THEN [bound EXCEPT ![p] = [arg |-> n.arg, at |-> <<"array", p>>]]
                    ELSE [q \in Positions |-> Unbound]

bindNode ==
    /\ status = "binding" /\ pos \in Positions
    /\ \E ok \in BOOLEAN :
        /\ IF array_size > 0
           THEN \E made, set_up \in BOOLEAN : bindListValue(pos, made, set_up, ok)
           ELSE \E k \in 0..2 : bindScalar(pos, k, ok)
        /\ IF ok /\ pos + 1 \in Positions
           THEN /\ status' = "binding" /\ pos' = pos + 1
                /\ UNCHANGED <<iters, again>>
           ELSE /\ pos' = 1
                /\ IF ok /\ again THEN status' = "retry" /\ UNCHANGED <<iters, again>>
                   ELSE /\ status' = (IF ok THEN "ready" ELSE "failed")
                        /\ iters' = 0 /\ again' = FALSE
    /\ astray' = (astray \/ nodes[pos].array
                    \/ (array_size > 0 /\ nodes[pos].arg.class = "date"))
    /\ UNCHANGED <<is_select, array_size>>

(***************************************************************************)
(* bindOracle() begins: the lists have to be of the same size, and none    *)
(* may be bound to a select statement.                                     *)
(***************************************************************************)
Sizes == {nodes'[p].arg.size : p \in Values} \ {Scalar}

setArraySize ==
    array_size' \in IF Sizes \ {0} = {} THEN {0} ELSE Sizes \ {0}

mismatch == \E p, q \in Values :
    LET a == nodes'[p].arg.size
        b == nodes'[q].arg.size
    IN  p < q /\ a > 0 /\ b # Scalar /\ a # b

bindOracle ==
    /\ \/ /\ (is_select' /\ Sizes # {}) \/ mismatch
          /\ status' = "failed" /\ array_size' = 0
       \/ /\ ~(is_select' /\ Sizes # {}) /\ ~mismatch
          /\ status' = "binding" /\ setArraySize
    /\ pos' = 1

-----------------------------------------------------------------------------
Init ==
    /\ status = "none" /\ is_select = FALSE /\ array_size = 0 /\ iters = 0
    /\ nodes = [p \in Positions |-> NewNode(Nothing)]
    /\ pos = 1 /\ again = FALSE /\ astray = FALSE
    /\ bound = [p \in Positions |-> Unbound]

ArgLists(ps) ==
    {args \in [ps -> UNION {Args(p) : p \in ps}] : \A p \in ps : args[p] \in Args(p)}

prepare ==
    /\ status = "none"
    /\ is_select' \in BOOLEAN
    /\ \E args \in ArgLists(Positions) :
        nodes' = [p \in Positions |-> NewNode(args[p])]
    /\ again' = FALSE
    /\ bindOracle \/ (status' = "unusable" /\ array_size' = 0 /\ pos' = 1)
    /\ UNCHANGED <<iters, bound, astray>>

(***************************************************************************)
(* bind(), bindValues() and bindPlaceholders(): the nodes of some          *)
(* positions are set to new arguments, one after the other until one of    *)
(* them fails, then all nodes are bound again, the others as they are.     *)
(***************************************************************************)
set(ps) ==
    \E args \in ArgLists(ps) :
        nodes' = [p \in Positions |->
               IF p \in ps THEN [clearNode(p) EXCEPT !.arg = args[p]] ELSE nodes[p]]

CanBind == status \in {"ready", "failed", "taken"}

bind(ps) ==
    /\ CanBind /\ ~Strays(ps, nodes)
    /\ again' = FALSE
    /\ bound' = [p \in Positions |-> Unbound]
    /\ UNCHANGED <<is_select, iters, astray>>
    /\ \/ set(ps) /\ bindOracle
       \/ /\ \E last \in ps : set({p \in ps : p <= last})
          /\ status' = "failed"
          /\ UNCHANGED <<array_size, pos>>

-----------------------------------------------------------------------------
(***************************************************************************)
(* execute(): the statement is executed, or its connection is lost.        *)
(***************************************************************************)
Iterations ==
    IF is_select THEN 0 ELSE IF array_size = 0 THEN 1 ELSE array_size

exec == status = "ready" /\ UNCHANGED vars

(***************************************************************************)
(* clear() after the loss, by clearStatements() and, for an SQLStatement,  *)
(* once more by Datasource::connectionLost(): the nodes have nothing of    *)
(* the old session left.  After a receive timeout the connection is not    *)
(* marked as lost, and clear() makes calls to free temporary LOBs in a     *)
(* session that is out of step (misfreed in OracleConnection); the nodes   *)
(* are the same then.                                                      *)
(***************************************************************************)
clearedTwice(p) == Cleared(p, clearNode(p))

clear(times) ==
    /\ ~Strays(Positions, nodes)
    /\ times = 2 => ~Strays(Positions, [p \in Positions |-> clearNode(p)])
    /\ nodes' = [p \in Positions |-> IF times = 1 THEN clearNode(p) ELSE clearedTwice(p)]
    /\ bound' = [p \in Positions |-> Unbound]

\* mutation: the statement is not bound again on the new session
rebindAbortedConnection_Not ==
    /\ status' = "retry" /\ again' = TRUE
    /\ UNCHANGED <<array_size, pos>>

(***************************************************************************)
(* rebindAbortedConnection(), if there was no transaction and the session  *)
(* could be made again.                                                    *)
(***************************************************************************)
rebindAbortedConnection ==
    /\ again' = TRUE
    /\ bindOracle

execLost ==
    /\ status = "ready"
    /\ \E times \in {1, 2} : clear(times)
    /\ UNCHANGED <<is_select, astray>>
    /\ \/ iters' = Iterations /\ rebindAbortedConnection
       \/ status' = "unusable" /\ UNCHANGED <<array_size, iters, pos, again>>

retry ==
    /\ status = "retry"
    /\ status' = "ready" /\ again' = FALSE /\ iters' = 0
    /\ UNCHANGED <<is_select, nodes, array_size, pos, bound, astray>>

(***************************************************************************)
(* getOutput(): the buffer of a string becomes the string.                 *)
(***************************************************************************)
getOutput ==
    /\ status = "ready" /\ array_size = 0
    /\ \A p \in Outputs : ~nodes[p].array
    /\ LET taken == {p \in Outputs : nodes[p].buf = "buffer"}
       IN  /\ status' = IF taken = {} THEN status ELSE "taken"
           /\ nodes' = [p \in Positions |->
                  IF p \in taken THEN [nodes[p] EXCEPT !.buf = "null"] ELSE nodes[p]]
    /\ UNCHANGED <<is_select, array_size, iters, pos, again, bound, astray>>

(***************************************************************************)
(* reset(): the statement is closed.                                       *)
(***************************************************************************)
CanReset == status \notin {"none", "binding", "retry", "undefined"}

reset ==
    /\ CanReset /\ ~Strays(Positions, nodes)
    /\ nodes' = [p \in Positions |-> NewNode(Nothing)]
    /\ bound' = [p \in Positions |-> Unbound]
    /\ status' = "none" /\ is_select' = FALSE /\ array_size' = 0
    /\ iters' = 0 /\ pos' = 1 /\ again' = FALSE /\ astray' = FALSE

(***************************************************************************)
(* The same calls with nodes that free what is not theirs, or read their   *)
(* output through a pointer to an array bind that is none: the program can *)
(* do anything.                                                            *)
(***************************************************************************)
BindSets == {Positions, Values, Outputs}

undefined ==
    /\ \/ CanBind /\ \E ps \in BindSets : Strays(ps, nodes)
       \/ CanReset /\ Strays(Positions, nodes)
       \/ status = "ready" /\ Strays(Positions, [p \in Positions |-> clearNode(p)])
       \/ status = "ready" /\ array_size = 0 /\ \E p \in Outputs : nodes[p].array
    /\ status' = "undefined"
    /\ UNCHANGED <<is_select, nodes, array_size, iters, pos, again, bound, astray>>

Next ==
    \/ prepare
    \/ \E ps \in BindSets : bind(ps)
    \/ bindNode
    \/ exec
    \/ execLost
    \/ retry
    \/ getOutput
    \/ reset
    \/ undefined

Spec == Init /\ [][Next]_vars

-----------------------------------------------------------------------------
(***************************************************************************)
(* The type invariant; an array is never bound to a select statement       *)
(* (bindOracle()).                                                         *)
(***************************************************************************)
TypeOK ==
    /\ status \in {"none", "binding", "ready", "failed", "taken", "unusable", "retry",
                   "undefined"}
    /\ {is_select, again, astray} \subseteq BOOLEAN
    /\ array_size \in Nat /\ iters \in Nat
    /\ is_select => array_size = 0
    /\ \A p \in Positions :
        /\ nodes[p].arg \in Args(p) \cup {Nothing}
        /\ nodes[p].dtype \in {"none", "INT", "STR", "LOB", "TIMESTAMP"}

(***************************************************************************)
(* A statement is executed with its arguments: whenever it can be executed *)
(* (also again, on the new session, with the iterations computed before    *)
(* the connection was lost) every position of the handle refers to the     *)
(* last argument of its node, in memory that its node still has, and the   *)
(* lists have as many elements as there are iterations.                    *)
(***************************************************************************)
RunsWithItsArguments ==
    status \in {"ready", "retry"} =>
        /\ \A p \in Positions :
            /\ bound[p].arg = nodes[p].arg
            /\ bound[p].at \in (owns(nodes[p]) \cup {"node"}) \X {p}
            /\ IsList(nodes[p].arg) => nodes[p].arg.size = Iterations
        /\ status = "retry" => iters = Iterations

(***************************************************************************)
(* Where the memory of a statement can be damaged: a node frees, or reads, *)
(* through a pointer that is not its own only after a node was bound while *)
(* it was still an array (a setup had failed, or the node was not set      *)
(* again, so that setPlaceholder()'s assert(!array) or getValue()'s could  *)
(* fail), or after an array of dates; otherwise never, whatever is bound,  *)
(* bound again, fails or is lost (resetValue(), clearPlaceholder()).       *)
(***************************************************************************)
DamageNeedsArray == status = "undefined" => astray

(***************************************************************************)
(* The assertions of the code that do not hold (README.md).                *)
(*                                                                         *)
(* A placeholder that is set is not an array: assert(!array) of            *)
(* setPlaceholder().                                                       *)
(***************************************************************************)
PlaceholderIsNoArray ==
    [][\A ps \in BindSets : bind(ps) => \A p \in ps \cap Outputs : ~clearNode(p).array]_vars

(***************************************************************************)
(* A node that saves a temporary string has none: assert(tmp_type ==       *)
(* OBT_NONE) of ora_bind::save().                                          *)
(***************************************************************************)
SavesOnce ==
    status = "binding" /\ array_size = 0 /\ pos \in Positions =>
        (nodes[pos].arg.class = "number" => ~nodes[pos].tmp)
=============================================================================
