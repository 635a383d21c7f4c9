----------------------------- MODULE Selection ------------------------------
(***************************************************************************)
(* Which pods a policy acts on: the namespace selector (nsselector), the   *)
(* refusals of Reconcile for selectors it cannot or will not use, the pod  *)
(* selector and isEligiblePod.                                             *)
(*                                                                         *)
(* A pattern stands for the set of namespaces it matches, which depends on *)
(* how it is read: path.Match wants the whole name, a regexp any part of   *)
(* it, and a text may be malformed as one and well-formed as the other.    *)
(***************************************************************************)
EXTENDS FiniteSets

CONSTANTS
  Namespaces,  \* the namespaces of the cluster
  Patterns,    \* the texts that occur in include and exclude, "*" and ".*"
  Language,    \* Language[t][p]: the namespaces that p matches as a t
  Malformed    \* Malformed[t]: the texts that are no pattern as a t

Syntaxes == {"Glob", "Regexp"}

ASSUME SelectionAssumption ==
  /\ {"*", ".*"} \subseteq Patterns
  /\ Language \in [Syntaxes -> [Patterns -> SUBSET Namespaces]]
  /\ Malformed \in [Syntaxes -> SUBSET Patterns]
  /\ Language["Glob"]["*"] = Namespaces /\ "*" \notin Malformed["Glob"]
  /\ Language["Regexp"][".*"] = Namespaces /\ ".*" \notin Malformed["Regexp"]

\* spec.namespaceSelector and spec.podSelector.  A pod selector is missing,
\* empty (it selects every pod), one label, or not valid.
PodSelectors == {"nil", "empty", "label", "invalid"}

-----------------------------------------------------------------------------
(* nsselector.                                                             *)

\* A matchType that is not given is a Glob.
Syntax(s) == IF s.matchType = "none" THEN "Glob" ELSE s.matchType

\* Compile: an empty include list matches everything.
Include(s) ==
  IF s.include # {} THEN s.include
  ELSE {IF Syntax(s) = "Regexp" THEN ".*" ELSE "*"}

\* A malformed regexp is an error; a glob is never looked at before it is used.
Compiles(s) ==
  /\ Syntax(s) \in Syntaxes
  /\ Syntax(s) = "Regexp" =>
       (Include(s) \cup s.exclude) \cap Malformed["Regexp"] = {}

\* globMatcher drops the error of path.Match: a malformed glob matches nothing.
MatchString(s, p, ns) ==
  p \notin Malformed[Syntax(s)] /\ ns \in Language[Syntax(s)][p]

\* Mutant: the exclude list is only looked at when there is no include list.
MatchIncludeWins(s, ns) ==
  /\ \E p \in Include(s) : MatchString(s, p, ns)
  /\ s.include = {} => \A p \in s.exclude : ~MatchString(s, p, ns)

Match(s, ns) ==
  /\ \E p \in Include(s) : MatchString(s, p, ns)
  /\ \A p \in s.exclude : ~MatchString(s, p, ns)

-----------------------------------------------------------------------------
(* Reconcile.                                                              *)

\* The reason of the Active condition, in the order of the tests.
ActiveReason(s) ==
  IF ~Compiles(s) THEN "InvalidNamespaceSelector"
  ELSE IF s.include = {} /\ s.podSelector = "nil" THEN "UnsafeConfig"
  ELSE IF s.podSelector = "invalid" THEN "InvalidPodSelector"
  ELSE "Enabled"

\* The label selector of the list call.
PodSelected(s, pod) == s.podSelector = "label" => pod.labelled

isEligiblePod(pod) == ~pod.deleting /\ pod.phase = "Running" /\ pod.scheduled

\* The pods of a list that are handed to the workers, but for the cooldown.
Candidates(s, pods) ==
  {p \in DOMAIN pods :
     /\ PodSelected(s, pods[p])
     /\ Match(s, pods[p].namespace)
     /\ isEligiblePod(pods[p])}

=============================================================================
