# TLA+ models of the KAI-Scheduler release-notes tooling

This project models the two release scripts under `src/.github/scripts/`:

* `release-notes.py` validates the "## Release Notes" section of a PR body. It
  also aggregates the sections of many PRs into one changelog section.
* `update-changelog.py` inserts that section into `CHANGELOG.md`, keeping the
  versions in semantic-version order.

Both scripts are sequential Python with no threads and no callbacks. What is
hard about them is not interleaving. It is the **order of the steps inside a
call**, the **state a scan carries from one line to the next**, and the **state
that persists between calls**: the changelog file, which one release after
another rewrites. The models keep every step, guard and early return of the
code. They abstract text to line kinds and small sets of words.

## 1. Inventory

### Components

| Component | Source | State it keeps | Operations |
|---|---|---|---|
| Section extractor | `extract_release_notes_section` (release-notes.py 25-47) | none | find the first `## Release Notes` heading (any case, followed by whitespace); take the lines up to the next `## ` or the end |
| Content cleaner | `clean_content` (50-66) | none | remove `<!-- ... -->` non-greedily across lines; strip lines; drop blank runs |
| Opt-out detector | `is_opt_out` (69-80) | none | the cleaned section upper-cased is `NONE` |
| Category parser | `parse_release_notes` (83-124) | `current_category`, the `categories` dict (insertion-ordered) | per line: a valid `###` sets the category and creates its key; an invalid `###` resets it; `-`/`*` appends `line[1:].strip()` when a category is set and the text is non-empty |
| Validator | `validate_release_notes` (127-159) | the returned tuple | not found → invalid; opt-out → valid; no categories → invalid; any empty category → invalid, naming them; else valid |
| Aggregator / renderer | `format_changelog_from_prs` (162-221) | `all_categories` across PRs | per PR: skip when not found or opted out; parse; per entry, add `[#n](url) [author](url)` unless `#n` or the URL is a substring of it; append unless already present. Then render the categories in a fixed order and strip |
| Changelog inserter | `update_changelog` (update-changelog.py 14-93) | `CHANGELOG.md` across releases | find the version headers and `## [Unreleased]\s*\n`; parse the new version (it raises if invalid); scan the headers after Unreleased for the first one older than the new version, skipping unparseable ones; insert before it, or else after Unreleased, or else at the start of the file; write |
| CLI drivers | `main` of both scripts | none | argv, printing, exit codes, not modelled |

### How they interact

In CI, the validator runs on every PR. At release time the aggregator turns
the merged PRs into one text. The inserter then puts that text into
`CHANGELOG.md` under the new version. The validator and the aggregator share
the extractor, cleaner, opt-out detector and parser. The aggregator assumes
that what it reads has passed the validator, but it does not check this.

### Hard behaviours (the hazards of `PROJECT.json`)

* `current_category` carries over from one line to the next. An invalid heading must
  reset it (release-notes.py:114).
* Bullets under an invalid heading are dropped, and the PR still validates
  (110-114, 151-159).
* The section is cut out before comments are removed (41 before 61). A `-->`
  left in a section starts with `-` and becomes the entry `->`.
* Attribution is a substring test on the decimal PR number (201). Deduplication
  compares the formatted strings (207).
* A key exists for a category with no entries. The renderer must skip it (215).
* The insertion point for a version older than every listed one (77-87).
* A retried release, or two equal PEP 440 versions, is never an anchor (65).
* Versions are compared as PEP 440 versions (50, 62, 65), not as the semantic
  versions the docstring and spec 9 promise. Some semantic versions are read
  differently, and some are rejected.
* The Unreleased pattern needs a newline after the header (43).
* `version_pattern` has no `^`, so a header quoted in an entry is scanned as
  a header (36-37).
* An unparseable header raises inside the scan and must be skipped (69-71).
* The changelog is read and rewritten without a lock (25, 90). This is not
  modelled yet.

## 2. Modules

| Module | Models | State ↔ code |
|---|---|---|
| `ReleaseNotesOps` | extractor, cleaner, opt-out, parser as pure operators | A line is `[kind, text]` with kind `h2`, `h3`, `bullet`, `plain`, `open` (`<!--`), `close` (`-->`) or `blank`. `ParseLine` is one iteration of the parse loop; `ParseInit` is lines 93-95. `GoverningCategory`/`RefKeys`/`RefEntries`/`RefParse` are a stateless reference of what parsing should give (the nearest heading above a bullet governs it). |
| `ValidateReleaseNotes` | `validate_release_notes` with the parse loop unrolled | `pc` ∈ extract → opt_out → parse → done. `lines`, `i` and `st` are the cleaned lines, the loop index, and `current_category` with the dict. `result` is the returned tuple. Actions: `ExtractSection`, `CheckOptOut`, `ParseStep`, `CheckCategories`. |
| `FormatChangelog` | `format_changelog_from_prs` | `prs` and `k` are the PR list and the loop index; `all` is `all_categories` (the keys created plus the lists); `output` is the rendered lines. Actions: `ProcessPR` (one PR iteration, the whole inner loop included) and `RenderChangelog`. An entry is formatted as its text plus the PR it was attributed to (0 for none). The digits of PR numbers are kept (`DecimalDigits`) because the substring test depends on them. |
| `UpdateChangelog` | `update_changelog`, called repeatedly on one file (extends `ChangelogOps`) | `doc` is the lines of CHANGELOG.md (title, unreleased, version header, an entry quoting a header (`mention`), text). `eol` says whether the file ends in a newline. `calls` counts releases. Actions: `BeginUpdate(v)` (read, match, parse; an unparseable `v` raises and writes nothing), `ScanMatch` (one loop iteration), `EndScan`, and `WriteUpdate` (all three insertion branches plus the write). `ParsedVersion` maps a version string to the `Pep440Key` that `Version` gives it, or to `Unparseable`. `SemverOf` gives the semantic version of the strings that are one. Only properties use it. |
| `CleanContentText` | `clean_content` at character level | `content` after each of the four statements (`pc` ∈ comments → lines → blanks → strip → done). Actions: `RemoveHTMLComments` (leftmost `<!--` with its first `-->`), `StripEachLine`, `CollapseNewlines` (the greedy `\n\s*\n`), `StripAll`. Characters are one-character strings; everything that is not part of `<!--`, `-->`, a newline or a space is `x`. |
| `ValidateContract` | spec 4.5 as one atomic, weakly fair step | `Decide` sets `result` to the verdict computed from the section, the opt-out test and the stateless reference parse. |
| `Pep440` | `packaging.version.Version` as lines 50, 62 and 65 use it, and semver precedence | A semantic version is a record `SemVer(core, pre, build)`: the release core, the pre-release identifiers (`Num(n)` or `Word(w)`), and whether it has `+build`. `Suffix`/`Pep440Key` give the `_cmpkey` of PEP 440: pre-release letter and number, post-release (a bare `-n`), dev release, and local label. They give `{}` when `Version` raises. `VersionGT` compares keys. `SemverGT` is the reference: Semantic Versioning 2.0.0, section 11. |
| `ChangelogOps` | the changelog text and version operators shared by the next two (extends `Pep440`). `VersionMatches` takes the `version` lines and the `mention` lines (an entry that quotes a header), because the pattern has no `^` | `ParsedVersion`, `UnreleasedMatch`, `VersionMatches`, `Splice`, `NewSection`. |
| `InsertContract` | spec 4.7 as one atomic step per release | `Release(v)` splices the section at the first strictly older parseable header below Unreleased, else below Unreleased, else at the start; an unparseable `v` changes nothing. |
| `MC_*` | constants for TLC | small word sets, PR numbers 1, 2 and 12, and versions that include an unparseable header and `1.0` = `1.0.0` |

## 3. Runs

| Run | Checks | Result |
|---|---|---|
| `validate` | `TypeOK`; `ScanMatchesReference` (at every step of the scan, the dict and `current_category` equal the reference for the lines read so far); `ContractSteps` (every step leaves the result pending or returns exactly the `ValidateContract` verdict: message, reference categories, the ordered list of empty ones) | pass, ~1.7M states. Covers every body of ≤5 lines built from: 2 titles; 3 headings (2 valid, 1 invalid); one entry text and the empty text; `none`; prose; comment open, comment close and blank lines. Each body is checked with and without a final newline |
| `validate_invalid_heading` | `InvalidHeadingRejected` (spec 3: an invalid heading is rejected) | **violation**: `### Added`, a stray `-->` line (line 118 takes it as the entry `->`), `### Fixes` is valid |
| `clean` | `LineModelFaithful`: character-level `clean_content`, split into lines, equals the line-level `CleanContent` of the other modules | pass on every section of ≤5 lines built from: text, `<!--`, `-->`, empty lines, whitespace-only lines and indented lines. This checks the abstraction that every other module relies on |
| `clean_idempotent` | `CleaningIdempotent` (spec 8) | **violation**: `<!<!---->---->` cleans to `<!---->`, and cleaning that again gives the empty text. Confirmed with the Python function |
| `format` | `TypeOK`; `DedupOnFormattedString` (after each PR, every contributed entry is in its category's list in the form spec 4.6 asks for, so two PRs with the same text are both kept; no list holds a string twice; a list holds nothing else); `RenderedChangelogWellFormed` (heading order, a bullet under every heading, every bullet under its category, each category's bullets equal to its list, no trailing blank) | pass: every list of ≤3 PRs over 5 bodies (plain, one with an empty category and a cross-reference, opt-out, no section, a repeated entry) and PR numbers {2, 12}, where the substring attribution test agrees with spec 4.6, so dedup is judged on its own |
| `format_attribution` | `EntriesAttributedToTheirPR` (spec 4.6: the link is omitted only when the entry cites this PR) | **violation**: PR 1's entry "A #12" is left unattributed |
| `update` | `TypeOK`; `UnreleasedStaysOnTop`; `AnchoredInsertKeepsOrder` (action: when the file is in order and has an older release, the write keeps it in order and anchors on a parseable header); `ImplementsInsertContract` (the loop implements `InsertContract!Spec` under the identity mapping on file and release count); `ScanFollowsSemver` (action: each scan step over a semantic-version header stops exactly when semver ranks the new version higher) | pass: two releases over 6 initial files (with/without Unreleased, with an unparseable `latest` header, descending and empty) and 7 versions (among them `v2.0.0-rc.1`, so an rc can be followed by its release), files ending in a newline. The versions include `1.9.0` below `1.10.0` and `2.0.0-rc.1` below `2.0.0` |
| `update_oldest_release` | `VersionsDescending` (spec 8) | **violation**: `v0.9.0` goes above `1.0.0` |
| `update_rerun` | `NoDuplicateRelease` | **violation**: `v1.0` after `1.0.0` (equal under PEP 440) adds a second section |
| `update_semver` | `ScanFollowsSemver` on a changelog whose latest release is `1.0.0-1` | **violation**: releasing `1.0.0` passes the `1.0.0-1` header (a post-release to PEP 440) and writes 1.0.0 below its own pre-release |
| `update_mention` | `ImplementsInsertContract` on a changelog whose 2.0.0 section has an entry quoting `## [v0.9.0] - 2024-01-01` | **violation**: the unanchored `version_pattern` matches the quote, and releasing `1.5.0` splits the 2.0.0 section there instead of going above the 1.0.0 header |
| `update_no_final_newline` | `UnreleasedStaysOnTop` with files ending without a newline | **violation**: the release is written above `## [Unreleased]` |

Each property of a passing run has a mutant in `PROJECT.json` that TLC finds
violated:

* a dropped reset of `current_category`;
* a heading taken without its validity test;
* an empty-category check of only the last category;
* the greedy comment pattern;
* a dropped dedup, and a dedup on the raw entry text;
* dropped key creation;
* a rendering of empty keys;
* an unparseable header taken as the anchor;
* `>=` for `>` in the version comparison;
* an insertion that ignores Unreleased;
* an invalid new version that does not raise;
* a version comparison of major.minor.patch only.

### Bounds

* Bodies of 5 lines are long enough for the following shapes:
  * heading, bullet, invalid heading, bullet;
  * a repeated heading;
  * a comment around a heading;
  * a section ended by a second `##`.
* Three PRs are enough for a duplicate PR, for two PRs with the same text, and
  for a PR after an opt-out.
* Two releases are enough for a rerun, and for an insertion into a file the
  previous release already changed.
* Pieces of comment syntax (`<!`, `<!--`, `-->`, `--`, `x`, a newline), up to
  5 of them, are enough for a removed comment to re-form a new one: 4 pieces
  are needed, plus one more to vary the case.
* The `update` versions include 1.9.0 against a 1.10.0 header, where the
  order of the numbers and the order of the digits disagree; `ParsedVersion`
  is a table of keys, so this exercises the scan and the key order, not the
  code's parsing. They also include 2.0.0-rc.1, which can be followed by
  2.0.0 in the second release. The `update_semver` file adds a semantic
  version PEP 440 reads otherwise: `1.0.0-1`, a post-release to it.
* Numbers 1 and 12 (`format_attribution`) are the smallest pair where one
  number's digits are a prefix of the other's; 2 and 12 (`format`) keep a
  two-digit number without that overlap.

### Fairness

Both scripts run on one thread, never block, and loop only over finite
lists, so termination is not in question and no run checks liveness: every
run uses `Spec` and checks safety (invariants, action properties, and the
refinement of `InsertContract`, a safety specification). The weak fairness
of `ValidateContract!Spec` belongs to the abstract contract; `ContractSteps`
checks only its step relation. All runs set `CHECK_DEADLOCK FALSE` because the final
state (`pc = "done"`, or `calls = MaxCalls`) is where the program ends.

## 4. Not modelled, and the plan

* **CLI drivers and file I/O**: not modelled. They keep no state of their own.
* **Concurrent writers to CHANGELOG.md**: not modelled. Spec 5 leaves
  serialising them to the surrounding automation, and each call is a
  one-shot process.
* **Version headers without a date**: not modelled. `version_pattern` does not
  match them (see the hazard at `update-changelog.py:36`).
* **PEP 440 beyond the instances**: `Pep440` models pre, post, dev and local
  segments. The runs use release candidates, a numeric pre-release and an
  unknown word. Epochs (`1!2.0`) and release segments longer than three
  numbers are not semantic versions, so they are left out.
* **A body that ends with `## Release Notes` and no newline** is reported
  "not found" rather than "no valid categories" (hazard at
  `release-notes.py:41`). Both are invalid verdicts, so no run checks the
  message.
* **A `## ` line inside an HTML comment** ends the section (hazard at
  `release-notes.py:41`). The model has this behaviour, and spec 8 asks for
  it. No property is stated, because no source says otherwise.
* **Comments that open or close inside a line**: covered by the
  character-level `CleanContentText` (`clean_idempotent`). The line-level
  model, and so the validator and aggregator runs, sees only whole-line
  markers.
* **Next**: a composition of the aggregator's output feeding the inserter,
  and a larger `format` instance with a PR cited by another PR's entry in both
  directions.
