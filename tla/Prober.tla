------------------------------- MODULE Prober -------------------------------
(***************************************************************************)
(* resize.Prober: the capability that all policies share, found out from   *)
(* discovery or from a refused resize and kept for a time, and what        *)
(* UpdateResize makes of the answers of the API server.                    *)
(*                                                                         *)
(* A capability is its reason, from which its state follows, and the age   *)
(* of Checked in ticks, which stops growing at MaxTTL: no policy trusts it *)
(* for longer.  The zero value of a string in the code is "none" here.     *)
(***************************************************************************)
EXTENDS Integers

CONSTANT MaxTTL  \* the longest capabilityCheckInterval, in ticks

ASSUME ProberAssumption == MaxTTL \in Nat \ {0}

VARIABLE cap  \* p.cache

NeverChecked == -1
Reasons == {"none", "NotFound", "DiscoveryFailed", "VerbMissing",
            "Discovered", "ApplyFailed"}
Capabilities == [reason : Reasons, age : NeverChecked..MaxTTL]

State(c) ==
  CASE c.reason = "Discovered" -> "Supported"
    [] c.reason \in {"NotFound", "ApplyFailed"} -> "Unsupported"
    [] OTHER -> "Unknown"

NewProber == [reason |-> "none", age |-> NeverChecked]

\* Time passes.
OlderCap ==
  [cap EXCEPT !.age = IF @ \in {NeverChecked, MaxTTL} THEN @ ELSE @ + 1]

-----------------------------------------------------------------------------
(* Supported and Mark.                                                     *)

\* What discovery may say of pods/resize: it offers update, it offers other
\* verbs only, it is not there, or the request fails.
Discoveries == {"update", "otherVerbs", "nothing", "error"}

DiscoveredReason(d) ==
  CASE d = "update" -> "Discovered"
    [] d = "otherVerbs" -> "VerbMissing"
    [] d = "nothing" -> "NotFound"
    [] d = "error" -> "DiscoveryFailed"

\* Mutant: off by one, a capability is trusted for a tick too long.
TrustedTooLong(ttl) == cap.age # NeverChecked /\ cap.age <= ttl

\* The ttl of a policy is positive (an hour if its spec does not say).
Trusted(ttl) == cap.age # NeverChecked /\ cap.age < ttl

\* Mutant: a capability found missing is not asked for again.
SupportedGivesUp(ttl, d) ==
  IF Trusted(ttl) \/ cap.reason = "NotFound" THEN cap
  ELSE [reason |-> DiscoveredReason(d), age |-> 0]

\* The new cache, which is also the answer: failures are remembered as well.
Supported(ttl, d) ==
  IF Trusted(ttl) THEN cap ELSE [reason |-> DiscoveredReason(d), age |-> 0]

\* Mutant: Checked is not filled in.
RefusedUnstamped == [reason |-> "ApplyFailed", age |-> NeverChecked]

\* The capability that a refused resize marks.
Refused == [reason |-> "ApplyFailed", age |-> 0]

Mark(c) == cap' = c

-----------------------------------------------------------------------------
(* UpdateResize.  An answer has the code of its status, or, when it is no  *)
(* status, the one its message stands for; kind and named are the details. *)

Answers == [code : {200, 403, 404, 405, 409, 500}, isStatus : BOOLEAN,
            kind : {"pods", "pods/resize", "none"}, named : BOOLEAN]

Status(code, kind, named) ==
  [code |-> code, isStatus |-> TRUE, kind |-> kind, named |-> named]

\* isPodNotFoundStatus and isPodNotFoundMsg.
PodNotFound(a) == a.code = 404 /\ a.kind = "pods" /\ a.named

\* Mutant: every "not found" is taken for the subresource's.
UnsupportedAny404(a) == a.code \in {404, 405}

isUnsupportedResizeErr(a) ==
  /\ a.code \in {404, 405}
  /\ ~PodNotFound(a)
  /\ a.isStatus \/ a.kind = "pods/resize"

\* The class of the error UpdateResize returns, if any.
UpdateResize(a) ==
  CASE a.code = 200 -> "none"
    [] isUnsupportedResizeErr(a) -> "Unsupported"
    [] a.code = 403 -> "Forbidden"
    [] a.code = 409 -> "Conflict"
    [] OTHER -> "Other"

\* UnsupportedError and ForbiddenError: the errors that end a run.
Fatal == {"Unsupported", "Forbidden"}

=============================================================================
