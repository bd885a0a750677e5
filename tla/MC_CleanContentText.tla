------------------------ MODULE MC_CleanContentText ------------------------
EXTENDS CleanContentText

\* Sections of at most 5 lines: text, comment markers on their own lines,
\* empty and whitespace-only lines, and an indented line.
MCLines == {<<"x">>, OpenChars, CloseChars, <<>>, <<" ">>, <<" ", "x">>}
MCLineInputs == {JoinLines(ls) : ls \in BoundedSeq(MCLines, 5)}

\* Sections made of at most 5 pieces of comment syntax, run together on a
\* line or split over lines: the fragments "<!" and "--" can join into a
\* new marker once the text between them is removed.
MCPieces == {<<"<", "!">>, OpenChars, CloseChars, <<"-", "-">>, <<"x">>, <<NL>>}
MCTokenInputs == {FlattenSeq(ts) : ts \in BoundedSeq(MCPieces, 5)}

=============================================================================
