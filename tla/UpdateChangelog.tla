-------------------------- MODULE UpdateChangelog --------------------------
(***************************************************************************)
(* update_changelog of .github/scripts/update-changelog.py, called once    *)
(* per release on the same CHANGELOG.md.  The file is the state that       *)
(* persists between calls; each call is                                    *)
(*                                                                         *)
(*   BeginUpdate  read the file, find the version headers and the          *)
(*                "## [Unreleased]" header, parse the new version (an      *)
(*                unparseable one raises and nothing is written)           *)
(*   ScanMatch    one iteration of `for match in matches`                  *)
(*   EndScan      the loop ran out without an insertion point              *)
(*   WriteUpdate  splice the new section in and write the file             *)
(*                                                                         *)
(* The document and versions are those of ChangelogOps.                   *)
(***************************************************************************)
EXTENDS ChangelogOps

CONSTANTS
  InitDocs,      \* the CHANGELOG.md contents a run may start from
  EOLs,          \* whether the file text may end with a newline
  NewVersions,   \* the version strings a release may be cut with
  MaxCalls,      \* bound on the number of releases
  SemverOf       \* [the version strings that are semantic versions -> SemVer]

ASSUME NewVersions \subseteq VersionString /\ MaxCalls \in Nat
ASSUME DOMAIN SemverOf \subseteq VersionString

-----------------------------------------------------------------------------
VARIABLES
  doc,       \* the lines of CHANGELOG.md
  eol,       \* whether the file text ends with a newline
  calls,     \* releases done so far
  pc,        \* "idle" between calls, "scan" in the loop, "write" after it
  newv,      \* the version string being inserted
  matches,   \* line indices of the version headers
  unrel,     \* line of the matched Unreleased header, or 0
  m,         \* index of the next match of the loop
  insertAt   \* insert_position: a line index, or 0 for None

vars == <<doc, eol, calls, pc, newv, matches, unrel, m, insertAt>>

Init ==
  /\ doc \in InitDocs
  /\ eol \in EOLs
  /\ calls = 0
  /\ pc = "idle"
  /\ newv = CHOOSE v \in NewVersions : TRUE
  /\ matches = <<>>
  /\ unrel = 0
  /\ m = 1
  /\ insertAt = 0

\* Mutant of BeginUpdate: an invalid new version is not raised on.
BeginUpdateNoRaise(v) ==
  /\ pc = "idle"
  /\ calls < MaxCalls
  /\ newv' = v
  /\ matches' = VersionMatches(doc)
  /\ unrel' = UnreleasedMatch(doc, eol)
  /\ m' = 1
  /\ insertAt' = 0
  /\ pc' = "scan"
  /\ UNCHANGED <<calls, doc, eol>>

\* Lines 24-50: read the file, find the headers, parse the new version.
BeginUpdate(v) ==
  /\ pc = "idle"
  /\ calls < MaxCalls
  /\ \/ /\ ~IsParsed(v)
        /\ calls' = calls + 1
        /\ UNCHANGED <<pc, newv, matches, unrel, m, insertAt>>
     \/ /\ IsParsed(v)
        /\ newv' = v
        /\ matches' = VersionMatches(doc)
        /\ unrel' = UnreleasedMatch(doc, eol)
        /\ m' = 1
        /\ insertAt' = 0
        /\ pc' = "scan"
        /\ UNCHANGED calls
  /\ UNCHANGED <<doc, eol>>

\* Mutant of ScanMatch: an unparseable header ends the loop as an anchor.
ScanMatchUnparseableAnchor ==
  /\ pc = "scan"
  /\ m <= Len(matches)
  /\ LET j   == matches[m]
         old == doc[j].ver
         hit == j > unrel /\ (IsParsed(old) => VersionGT(ParsedVersion[newv], ParsedVersion[old]))
     IN  \/ hit /\ insertAt' = j /\ pc' = "write"
         \/ ~hit /\ UNCHANGED <<insertAt, pc>>
  /\ m' = m + 1
  /\ UNCHANGED <<doc, eol, calls, newv, matches, unrel>>

\* Mutant of ScanMatch: `>=` for `>`, an equal version is taken as older.
ScanMatchNonStrict ==
  /\ pc = "scan"
  /\ m <= Len(matches)
  /\ LET j   == matches[m]
         old == doc[j].ver
         hit == j > unrel /\ IsParsed(old)
                /\ ~VersionGT(ParsedVersion[old], ParsedVersion[newv])
     IN  \/ hit /\ insertAt' = j /\ pc' = "write"
         \/ ~hit /\ UNCHANGED <<insertAt, pc>>
  /\ m' = m + 1
  /\ UNCHANGED <<doc, eol, calls, newv, matches, unrel>>

\* Lines 53-71: skip a header before the search start or unparseable,
\* stop at the first one the new version exceeds.
ScanMatch ==
  /\ pc = "scan"
  /\ m <= Len(matches)
  /\ LET j   == matches[m]
         old == doc[j].ver
     IN  \/ /\ j > unrel
            /\ IsParsed(old)
            /\ VersionGT(ParsedVersion[newv], ParsedVersion[old])
            /\ insertAt' = j
            /\ pc' = "write"
         \/ /\ ~(j > unrel /\ IsParsed(old)
                 /\ VersionGT(ParsedVersion[newv], ParsedVersion[old]))
            /\ UNCHANGED <<insertAt, pc>>
  /\ m' = m + 1
  /\ UNCHANGED <<doc, eol, calls, newv, matches, unrel>>

\* The loop ran through every match without a break.
EndScan ==
  /\ pc = "scan"
  /\ m > Len(matches)
  /\ pc' = "write"
  /\ UNCHANGED <<doc, eol, calls, newv, matches, unrel, m, insertAt>>

\* Mutant of WriteUpdate: without an anchor the section goes to the top.
WriteUpdateIgnoreUnreleased ==
  /\ pc = "write"
  /\ doc' = IF insertAt # 0 THEN Splice(doc, insertAt, NewSection(newv))
                            ELSE Splice(doc, 1, NewSection(newv))
  /\ calls' = calls + 1
  /\ pc' = "idle"
  /\ UNCHANGED <<eol, newv, matches, unrel, m, insertAt>>

\* Lines 73-91: insert before the anchor, else after Unreleased, else at
\* the top, and write the file.
WriteUpdate ==
  /\ pc = "write"
  /\ doc' = CASE insertAt # 0 -> Splice(doc, insertAt, NewSection(newv))
              [] unrel # 0    -> Splice(doc, unrel + 1, NewSection(newv))
              [] OTHER        -> Splice(doc, 1, NewSection(newv))
  /\ calls' = calls + 1
  /\ pc' = "idle"
  /\ UNCHANGED <<eol, newv, matches, unrel, m, insertAt>>

Next ==
  \/ \E v \in NewVersions : BeginUpdate(v)
  \/ ScanMatch
  \/ EndScan
  \/ WriteUpdate

Spec == Init /\ [][Next]_vars

-----------------------------------------------------------------------------
(* Type invariant: the document is made of changelog lines, and a version  *)
(* being inserted has passed Version() (an invalid one raised).             *)
TypeOK ==
  /\ doc \in Seq([kind : {"title", "unreleased", "version", "mention", "text"},
                  ver  : VersionString \cup {NoVersion}])
  /\ eol \in BOOLEAN
  /\ calls \in 0..MaxCalls
  /\ pc \in {"idle", "scan", "write"}
  /\ newv \in NewVersions
  /\ pc # "idle" => IsParsed(newv)
  /\ unrel \in 0..Len(doc)
  /\ insertAt \in 0..Len(doc)

Released(d) ==
  {j \in DOMAIN d : j > ZoneStart(d) /\ d[j].kind = "version" /\ IsParsed(d[j].ver)}

\* Newer versions first (ties allowed).
Descending(d) ==
  \A a, b \in Released(d) :
    a < b => ~VersionGT(ParsedVersion[d[b].ver], ParsedVersion[d[a].ver])

\* The new version exceeds some released version below Unreleased.
HasOlderRelease(d, v) ==
  \E j \in Released(d) : VersionGT(ParsedVersion[v], ParsedVersion[d[j].ver])

FirstDifference(d1, d2) ==
  Min({j \in DOMAIN d2 : j > Len(d1) \/ d1[j] # d2[j]})

(***************************************************************************)
(* update_changelog implements its contract (spec 4.7): the scan over the *)
(* matches, with its skips and its break, and the three write branches     *)
(* together put each release exactly where the contract's insertion point *)
(* is, change nothing else, and write nothing for an unparseable version. *)
(* The mapping is the identity on the file and the release count; the     *)
(* steps inside a call are stuttering steps of the contract.              *)
(***************************************************************************)
Insert == INSTANCE InsertContract

ImplementsInsertContract == Insert!Spec

(***************************************************************************)
(* Spec 4.7: no release is ever written above the "## [Unreleased]"       *)
(* header of a changelog that has one, over any number of releases.       *)
(***************************************************************************)
UnreleasedStaysOnTop ==
  ZoneStart(doc) # 0 =>
    \A j \in DOMAIN doc : doc[j].kind = "version" => j > ZoneStart(doc)

(***************************************************************************)
(* Spec 4.7 and 8: when a changelog in descending order has a release      *)
(* older than the new one, the write keeps it in descending order and      *)
(* puts the new section directly above a parseable version header: an      *)
(* unparseable header such as "## [latest]" is never the anchor.           *)
(***************************************************************************)
AnchoredInsertKeepsOrder ==
  [][ (pc = "write" /\ pc' = "idle" /\ Descending(doc) /\ HasOlderRelease(doc, newv))
        => LET below == FirstDifference(doc, doc') + Len(NewSection(newv))
           IN  /\ Descending(doc')
               /\ below <= Len(doc')
               /\ doc'[below].kind = "version"
               /\ IsParsed(doc'[below].ver)
    ]_vars

(***************************************************************************)
(* The docstring ("in correct semver order") and spec 9: each iteration    *)
(* of the scan over a header below Unreleased that holds a semantic        *)
(* version, for a new semantic version, stops there exactly when the new   *)
(* version has the higher semver precedence, over any sequence of          *)
(* releases.  A header Version() cannot parse is skipped, as a lower one   *)
(* would be.                                                               *)
(***************************************************************************)
ScanFollowsSemver ==
  [][ LET j   == matches[m]
          old == doc[j].ver
      IN  (pc = "scan" /\ m <= Len(matches) /\ m' = m + 1 /\ j > unrel
            /\ {newv, old} \subseteq DOMAIN SemverOf)
          => ((pc' = "write") <=> SemverGT(SemverOf[newv], SemverOf[old])) ]_vars

(***************************************************************************)
(* Spec 3 and 8: version sections below Unreleased are in descending      *)
(* order, and "inserting v0.9.0 places it after v1.0.0 (or at document    *)
(* end if no lower version exists)".  The code puts a version older than  *)
(* every released one directly under Unreleased.                          *)
(***************************************************************************)
VersionsDescending == Descending(doc)

(***************************************************************************)
(* Spec 3 expects strictly descending versions.  A release job that runs  *)
(* again for a version already in the changelog (a retry, or "v1.0" after *)
(* "v1.0.0", which Version treats as equal) adds a second section for it. *)
(***************************************************************************)
NoDuplicateRelease ==
  \A a, b \in Released(doc) :
    a # b => ParsedVersion[doc[a].ver] # ParsedVersion[doc[b].ver]

=============================================================================
