---------------------------- MODULE CallGraphText ----------------------------
(***************************************************************************)
(* What `opt -print-callgraph` prints, the input of every version of       *)
(* pipair.                                                                 *)
(*                                                                         *)
(* opt and the program are two processes joined by a pipe.  opt is not     *)
(* part of the repository: it prints one node per function of the module   *)
(* and one for <<null function>>, in an order of its own, each node ended  *)
(* by an empty line, and it may stop anywhere (the end of its work, or a   *)
(* crash: the program sees the end of the pipe in both cases).  A line is  *)
(* abstracted to what the two regular expressions of main can tell apart.  *)
(***************************************************************************)
EXTENDS LikelyPairs

CONSTANT NullNode   \* <<null function>>, the node of the calls from outside

ASSUME NullNodeAssumption == NullNode \notin Fun /\ NullNode # NoNode

VARIABLES
  unprinted,      \* the nodes opt has not printed yet
  node,           \* the node it is printing, NoNode between two nodes
  calls           \* the calls of the nodes of named functions printed so far

optVars == <<unprinted, node, calls>>

OptInit ==
  /\ unprinted = Fun \cup {NullNode}
  /\ node = NoNode
  /\ calls = {}

(***************************************************************************)
(* Lines.  "Call graph node for function: 'f'<<0x..>>" is a node line,     *)
(* "Call graph node <<null function>>.." a nullnode line, "CS<..> calls    *)
(* function 'f'" a call line, "CS<..> calls external node" an external     *)
(* line.  Only node and call lines hold a quoted name.                     *)
(***************************************************************************)
Named(k)   == [kind : {k}, name : Fun]
Unnamed(k) == [kind : {k}, name : {NoNode}]

Line == Named("node") \cup Named("call")
          \cup Unnamed("nullnode") \cup Unnamed("external") \cup Unnamed("blank")

(* Seeded fault: caller_p without the quoted name.                         *)
MatchesCallerUnquoted(l) == l.kind \in {"node", "nullnode"}
(* caller_p: the line starts with Call and holds a quoted name.            *)
MatchesCaller(l) == l.kind = "node"
(* callee_p: any line that holds a quoted name, a node line too.           *)
MatchesCallee(l) == l.kind \in {"node", "call"}

(***************************************************************************)
(* What opt can print next.                                                *)
(***************************************************************************)
OptHeader(l, n) ==
  /\ node = NoNode
  /\ n \in unprinted
  /\ l = IF n = NullNode THEN [kind |-> "nullnode", name |-> NoNode]
                         ELSE [kind |-> "node", name |-> n]
  /\ node' = n
  /\ unprinted' = unprinted \ {n}
  /\ UNCHANGED calls

OptCall(l, e) ==
  /\ node # NoNode
  /\ l.kind = "call"
  /\ calls' = IF node = NullNode THEN calls ELSE calls \cup {<<node, e>>}
  /\ UNCHANGED <<unprinted, node>>

OptExternal(l) ==
  /\ node # NoNode
  /\ l.kind = "external"
  /\ UNCHANGED optVars

OptBlank(l) ==
  /\ node # NoNode
  /\ l.kind = "blank"
  /\ node' = NoNode
  /\ UNCHANGED <<unprinted, calls>>

(* opt prints the line l; if it is a call, e is what is remembered of it.   *)
OptText(l, e) ==
  \/ \E n \in Fun \cup {NullNode} : OptHeader(l, n)
  \/ OptCall(l, e)
  \/ OptExternal(l)
  \/ OptBlank(l)
=============================================================================
