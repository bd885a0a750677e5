---------------------------- MODULE ChangelogOps ----------------------------
(***************************************************************************)
(* The text of CHANGELOG.md as update-changelog.py sees it, and the        *)
(* operators on it shared by update_changelog and by its contract.  The    *)
(* document is a sequence of lines: the title, the Unreleased header,      *)
(* version headers "## [<ver>] - <date>", entry lines that quote such a   *)
(* header, and other text.  A version is a                                 *)
(* string; ParsedVersion gives the Pep440Key packaging.version.Version    *)
(* makes of it, or Unparseable; VersionGT of Pep440 compares two keys.    *)
(***************************************************************************)
EXTENDS Naturals, Sequences, SequencesExt, Pep440

CONSTANTS
  ParsedVersion, \* [version string -> Pep440Key or Unparseable]
  Unparseable    \* a model value: Version() raises InvalidVersion

VersionString == DOMAIN ParsedVersion

DocLine(k, v) == [kind |-> k, ver |-> v]
NoVersion == "-"

\* new_section = f"## [{version}] - {date}\n\n{changelog_entries}\n\n"
NewSection(v) == <<DocLine("version", v), DocLine("text", NoVersion)>>

IsParsed(v) == ParsedVersion[v] # Unparseable

(* re.search(r'## \[Unreleased\]\s*\n'): the first Unreleased header that *)
(* a newline follows, i.e. not the last line of a file without a final    *)
(* newline; 0 when there is none.                                          *)
UnreleasedMatch(doc, eol) ==
  LET us == {u \in DOMAIN doc : doc[u].kind = "unreleased" /\ (u < Len(doc) \/ eol)}
  IN  IF us = {} THEN 0 ELSE Min(us)

(* re.finditer(version_pattern, content): the pattern has no "^", so it  *)
(* matches the version headers and also an entry line that quotes one     *)
(* ("mention"), in document order.                                         *)
VersionMatches(doc) ==
  SelectSeq([j \in DOMAIN doc |-> j], LAMBDA j : doc[j].kind \in {"version", "mention"})

\* content[:p] + section + content[p:], with p a line index.
Splice(doc, p, sec) == SubSeq(doc, 1, p - 1) \o sec \o SubSeq(doc, p, Len(doc))

(* The protected zone of spec 4.7: the lines below the first Unreleased    *)
(* header (the whole document when there is none), and the parseable      *)
(* version headers in it.                                                  *)
ZoneStart(d) ==
  LET us == {u \in DOMAIN d : d[u].kind = "unreleased"}
  IN  IF us = {} THEN 0 ELSE Min(us)

=============================================================================
