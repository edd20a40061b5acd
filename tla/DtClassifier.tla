---------------------------- MODULE DtClassifier ----------------------------
(* lib/dt-classifier.c, the decision tree, as lib/classifier.c calls it    *)
(* for CLASSIFIER_BACKEND_DT: rules are collected by classifier_insert()   *)
(* and the tree is built from them by the next classifier_lookup().        *)
(*                                                                         *)
(* One step is one call, by the thread that modifies the classifier or, if *)
(* there is no other, looks rules up.  A rule's match is, for each of the  *)
(* fields that the tree may test, a value or ANY.  A value is a number in  *)
(* the order in which the code compares its 32 bits.  Fields of fewer bits *)
(* are left out: the code compares bytes of them that it never set.        *)
EXTENDS Integers, SequencesExt

CONSTANTS
  Rule,
  NULL,
  ANY,               \* the field has an all-zeros mask
  Match,             \* [Rule -> [field -> value or ANY]]
  Priority,          \* [Rule -> Nat]
  candidate_fields,  \* the fields, in the order in which they are tried
  max_leaf_size,     \* what dt_ensure_tree_built() asks for
  Flow,              \* the flows that are looked up, [field -> value]
  MaxInsert          \* bound: calls of classifier_insert()

VARIABLES
  root, tree_built, pending_rules, n_rules,  \* struct decision_tree
  ret,   \* what the last call returned: a rule, a Boolean or NULL
  (* history *)
  cls,      \* the rules inserted and not removed since
  inserts   \* calls of classifier_insert() so far

vars == <<root, tree_built, pending_rules, n_rules, ret, cls, inserts>>

-----------------------------------------------------------------------------
(* The tree.                                                               *)

Leaf(rules) == [type |-> "leaf", rules |-> rules]
Freed == [type |-> "freed"]

(* minimatch_expand() and mf_get(): the value of a field without a mask is *)
(* zero.                                                                   *)
Masked(rule, field) == Match[rule][field] # ANY
ValueOf(rule, field) == IF Masked(rule, field) THEN Match[rule][field] ELSE 0

(* The values among which dt_find_split_value_array() takes the middle one.*)
Values(field, rules) ==
  LET masked == SelectSeq(rules, LAMBDA r : Masked(r, field))
  IN  [i \in DOMAIN masked |-> ValueOf(masked[i], field)]

CanSplit(field, rules) ==
  LET v == Values(field, rules) IN \E i, j \in DOMAIN v : v[i] # v[j]

dt_find_split_value_array(field, rules) ==
  LET v == Values(field, rules) IN v[(Len(v) \div 2) + 1]

RECURSIVE dt_build_tree_from_array(_)
dt_build_tree_from_array(rules) ==
  LET fields == SelectSeq(candidate_fields, LAMBDA f : CanSplit(f, rules))
      field == fields[1]
      split == dt_find_split_value_array(field, rules)
      left == SelectSeq(rules, LAMBDA r : ValueOf(r, field) < split)
      right == SelectSeq(rules, LAMBDA r : ValueOf(r, field) >= split)
  IN  IF Len(rules) <= max_leaf_size \/ fields = <<>>
      THEN Leaf(rules)
      ELSE IF left = <<>> \/ right = <<>>
      THEN Leaf(rules)
      ELSE [type |-> "internal", field |-> field, value |-> split,
            left |-> dt_build_tree_from_array(left),
            right |-> dt_build_tree_from_array(right)]

(* The leaf that dt_lookup() comes to: the right child is for the flows    *)
(* that have the very value that an internal node tests.                   *)
RECURSIVE FlowLeaf(_, _)
FlowLeaf(node, flow) ==
  IF node.type # "internal" THEN node
  ELSE FlowLeaf(IF flow[node.field] = node.value THEN node.right ELSE node.left, flow)

(* The rule of the highest priority, the first one if there are several.   *)
Best(rules) ==
  IF rules = <<>> THEN NULL
  ELSE rules[CHOOSE i \in DOMAIN rules :
               /\ \A j \in DOMAIN rules : Priority[rules[j]] <= Priority[rules[i]]
               /\ \A j \in 1 .. i - 1 : Priority[rules[j]] < Priority[rules[i]]]

(* What dt_lookup() may return: anything, once it reads memory that was    *)
(* freed.                                                                  *)
dt_lookup(node, flow) ==
  IF node = NULL THEN {NULL}
  ELSE LET leaf == FlowLeaf(node, flow)
       IN  IF leaf.type = "freed" THEN Rule \cup {NULL} ELSE {Best(leaf.rules)}

(* The rules of the leaf in which dt_remove_rule() looks: "Simplified:     *)
(* always go left".                                                        *)
RECURSIVE LeftRules(_)
LeftRules(node) ==
  IF node = NULL THEN {}
  ELSE IF node.type = "leaf" THEN ToSet(node.rules) ELSE LeftRules(node.left)

(* dt_node_copy() of the path and of the leaf, without one rule.  What is  *)
(* beside the path is shared with the old tree, all of which a callback to *)
(* dt_node_destroy() frees.                                                *)
RECURSIVE dt_path_rebuild_cow(_, _)
dt_path_rebuild_cow(node, rule) ==
  IF node.type = "leaf"
  THEN Leaf(RemoveAt(node.rules, CHOOSE i \in DOMAIN node.rules :
                                   /\ node.rules[i] = rule
                                   /\ \A j \in 1 .. i - 1 : node.rules[j] # rule))
  ELSE [node EXCEPT !.left = dt_path_rebuild_cow(node.left, rule), !.right = Freed]

-----------------------------------------------------------------------------
(* The calls.                                                              *)

(* dt_add_rule_lazy().  "'cls' must not contain an identical rule".        *)
classifier_insert(rule) ==
  /\ inserts < MaxInsert /\ rule \notin cls
  /\ pending_rules' = Append(pending_rules, rule)
  /\ tree_built' = FALSE
  /\ ret' = NULL
  /\ cls' = cls \cup {rule}
  /\ inserts' = inserts + 1
  /\ UNCHANGED <<root, n_rules>>

(* dt_remove_rule().                                                       *)
classifier_remove(rule) ==
  /\ rule \in cls
  /\ \/ /\ rule \in LeftRules(root)
        /\ root' = dt_path_rebuild_cow(root, rule)
        /\ n_rules' = n_rules - 1
        /\ cls' = cls \ {rule}
        /\ ret' = TRUE
     \/ /\ rule \notin LeftRules(root)
        /\ ret' = FALSE
        /\ UNCHANGED <<root, n_rules, cls>>
  /\ UNCHANGED <<tree_built, pending_rules, inserts>>

(* dt_ensure_tree_built()                                                  *)
EnsureTreeBuilt ==
  /\ tree_built' = TRUE
  /\ IF ~tree_built /\ pending_rules # <<>>
     THEN /\ root' = dt_build_tree_from_array(pending_rules)
          /\ n_rules' = Len(pending_rules)
     ELSE UNCHANGED <<root, n_rules>>

classifier_lookup(flow) ==
  /\ EnsureTreeBuilt
  /\ ret' \in dt_lookup(root', flow)
  /\ UNCHANGED <<pending_rules, cls, inserts>>

(* dt_init()                                                               *)
Init ==
  /\ root = NULL /\ tree_built = FALSE /\ pending_rules = <<>> /\ n_rules = 0
  /\ ret = NULL /\ cls = {} /\ inserts = 0

Next ==
  \/ \E rule \in Rule : classifier_insert(rule) \/ classifier_remove(rule)
  \/ \E flow \in Flow : classifier_lookup(flow)

Spec == Init /\ [][Next]_vars

-----------------------------------------------------------------------------
(* "If 'rule' is in 'cls', removes 'rule' from 'cls' and returns true."    *)
(* From then on no call returns it, until it is inserted again.            *)
RemovedIsGone == ret \in Rule => ret \in cls
=============================================================================
