------------------------------ MODULE MCFleet -------------------------------
(***************************************************************************)
(* Instances of Fleet for TLC.                                             *)
(***************************************************************************)
EXTENDS Fleet

MCNamespaces == {"prod", "nonprod"}
MCPatterns == {"*", ".*", "prod", "^prod", "["}

\* As a glob ".*" wants a leading dot, as a regexp "*" and "[" are errors and
\* "prod" is found in both names.
MCLanguage ==
  [t \in Syntaxes |-> [p \in MCPatterns |->
     CASE p = "*" -> IF t = "Glob" THEN MCNamespaces ELSE {}
       [] p = ".*" -> IF t = "Glob" THEN {} ELSE MCNamespaces
       [] p = "prod" -> IF t = "Glob" THEN {"prod"} ELSE MCNamespaces
       [] p = "^prod" -> IF t = "Glob" THEN {} ELSE {"prod"}
       [] OTHER -> {}]]
MCMalformed == [t \in Syntaxes |-> IF t = "Glob" THEN {"["} ELSE {"*", "["}]

MCSpec(matchType, include, exclude, podSelector) ==
  [enabled |-> TRUE, matchType |-> matchType, include |-> include,
   exclude |-> exclude, podSelector |-> podSelector]

MCNamespace == [q \in Pods |-> IF q = "a" THEN "prod" ELSE "nonprod"]

MCTTL == [p \in Policies |-> IF p = "short" THEN 1 ELSE 2]

MCBoth(short, long) == [p \in Policies |-> IF p = "short" THEN short ELSE long]

\* Each policy has a namespace of its own, in the two syntaxes.
MCApart == MCBoth(MCSpec("none", {"prod"}, {}, "nil"),
                  MCSpec("Regexp", {}, {"^prod"}, "label"))

\* As a regexp "prod" is found in both names.
MCOverlap == MCBoth(MCSpec("none", {"prod"}, {}, "nil"),
                    MCSpec("Regexp", {"prod"}, {}, "empty"))

\* Malformed as a glob, and unsafe.
MCMalformedGlob == MCBoth(MCSpec("Glob", {"prod"}, {"["}, "nil"),
                          MCSpec("Glob", {}, {"prod"}, "nil"))

\* Malformed as a regexp, and an exclude that is not anchored.
MCMalformedRegexp == MCBoth(MCSpec("Regexp", {"*"}, {}, "nil"),
                            MCSpec("Regexp", {".*"}, {"prod"}, "nil"))

\* Everything but a namespace, and not valid.
MCExclude == MCBoth(MCSpec("Glob", {}, {"prod"}, "empty"),
                    MCSpec("Glob", {"prod"}, {}, "invalid"))

MCDisabled ==
  MCBoth([MCSpec("Glob", {"*"}, {}, "nil") EXCEPT !.enabled = FALSE],
         MCSpec("Regexp", {"prod"}, {}, "label"))

MCStart(s, o, f) == [spec |-> s, offers |-> o, forbidden |-> f]

MCStarts ==
  {MCStart(MCOverlap, "update", {}), MCStart(MCApart, "nothing", {"b"}),
   MCStart(MCMalformedGlob, "update", {}),
   MCStart(MCMalformedRegexp, "otherVerbs", {}),
   MCStart(MCExclude, "nothing", {}), MCStart(MCDisabled, "update", {"b"})}
MCStartsApart == {MCStart(MCApart, "update", f) : f \in SUBSET Pods}

=============================================================================
