-------------------------- MODULE InsertContract --------------------------
(***************************************************************************)
(* What update_changelog promises (spec 4.7), one release as one atomic    *)
(* step: an unparseable new version changes nothing; otherwise the new     *)
(* section goes directly above the first parseable version header below    *)
(* "## [Unreleased]" that is strictly older, else directly below           *)
(* Unreleased, else at the very start, and nothing else changes.           *)
(***************************************************************************)
EXTENDS ChangelogOps

CONSTANTS InitDocs, EOLs, NewVersions, MaxCalls

VARIABLES doc, eol, calls

avars == <<doc, eol, calls>>

\* The insertion anchor (glossary): the first strictly older version header.
Anchors(d, v) ==
  {j \in DOMAIN d : /\ j > ZoneStart(d)
                    /\ d[j].kind = "version"
                    /\ IsParsed(d[j].ver)
                    /\ VersionGT(ParsedVersion[v], ParsedVersion[d[j].ver])}

InsertionPoint(d, v) ==
  CASE Anchors(d, v) # {} -> Min(Anchors(d, v))
    [] ZoneStart(d) # 0    -> ZoneStart(d) + 1
    [] OTHER               -> 1

Init ==
  /\ doc \in InitDocs
  /\ eol \in EOLs
  /\ calls = 0

Release(v) ==
  /\ calls < MaxCalls
  /\ calls' = calls + 1
  /\ doc' = IF IsParsed(v) THEN Splice(doc, InsertionPoint(doc, v), NewSection(v)) ELSE doc
  /\ UNCHANGED eol

Spec == Init /\ [][\E v \in NewVersions : Release(v)]_avars

=============================================================================
