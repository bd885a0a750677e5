------------------------- MODULE MC_UpdateChangelog -------------------------
(***************************************************************************)
(* Changelogs in descending order: with Unreleased and one release; with  *)
(* an unparseable "latest" header between two releases; with three        *)
(* releases; with no Unreleased header; with only the Unreleased header;  *)
(* with 1.10.0 above 1.9.0.  Two releases are cut from versions newer     *)
(* than, between, equal to (also spelt "v1.0") and older than the         *)
(* existing ones, a release candidate of 2.0.0, and an invalid one.       *)
(***************************************************************************)
EXTENDS UpdateChangelog

CONSTANT MCUnparseable

Title      == DocLine("title", NoVersion)
Unrel      == DocLine("unreleased", NoVersion)
Text       == DocLine("text", NoVersion)
Header(v)  == DocLine("version", v)
Mention(v) == DocLine("mention", v)

Release(c) == SemVer(c, <<>>, FALSE)

\* The version strings that are semantic versions.
MCSemverOf ==
  ("v2.0.0" :> Release(<<2, 0, 0>>)) @@ ("v1.5.0" :> Release(<<1, 5, 0>>)) @@
  ("v1.10.0" :> Release(<<1, 10, 0>>)) @@ ("v1.9.0" :> Release(<<1, 9, 0>>)) @@
  ("v1.0.0" :> Release(<<1, 0, 0>>)) @@ ("v0.9.0" :> Release(<<0, 9, 0>>)) @@
  ("v2.0.0-rc.1" :> SemVer(<<2, 0, 0>>, <<Word("rc"), Num(1)>>, FALSE)) @@
  ("v1.0.0-1" :> SemVer(<<1, 0, 0>>, <<Num(1)>>, FALSE))

(* Version(v.lstrip('v')): the Pep440Key of a semantic version PEP 440     *)
(* accepts; "1.0" has the key of "1.0.0" (trailing zeros of the release   *)
(* segment do not count); "latest" and "next" raise.                       *)
MCParsedVersion ==
  [v \in DOMAIN MCSemverOf |->
     IF Pep440Valid(MCSemverOf[v]) THEN Pep440Key(MCSemverOf[v]) ELSE MCUnparseable]
  @@ ("v1.0" :> Pep440Key(Release(<<1, 0, 0>>)))
  @@ ("latest" :> MCUnparseable) @@ ("next" :> MCUnparseable)

MCInitDocs ==
  { <<Title, Unrel, Header("v1.0.0"), Text>>,
    <<Title, Unrel, Header("v2.0.0"), Text, Header("latest"), Text, Header("v1.0.0"), Text>>,
    <<Unrel, Header("v2.0.0"), Header("v1.0.0"), Header("v0.9.0")>>,
    <<Title, Header("v1.0.0"), Text>>,
    <<Title, Unrel>>,
    <<Unrel, Header("v1.10.0"), Header("v0.9.0")>> }

MCNewVersions == {"v2.0.0", "v2.0.0-rc.1", "v1.9.0", "v1.5.0", "v1.0", "v0.9.0", "next"}
MCMaxCalls == 2

(* Semantic versions PEP 440 reads otherwise: a changelog whose latest     *)
(* release is the pre-release 1.0.0-1 (a post-release to PEP 440), and   *)
(* the release 1.0.0 cut next.                                            *)
MCSemverDocs ==
  { <<Title, Unrel, Header("v1.0.0-1"), Text, Header("v0.9.0"), Text>> }
MCSemverNewVersions == {"v1.0.0"}

(* A changelog in which the 2.0.0 section has an entry that quotes the     *)
(* header of 0.9.0, e.g. "- Fix parsing of ## [v0.9.0] - 2024-01-01",      *)
(* and the release 1.5.0 cut next.                                         *)
MCMentionDocs ==
  { <<Title, Unrel, Header("v2.0.0"), Mention("v0.9.0"), Text, Header("v1.0.0"), Text>> }
MCMentionNewVersions == {"v1.5.0"}

=============================================================================
