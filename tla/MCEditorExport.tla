--------------------------- MODULE MCEditorExport ----------------------------
EXTENDS EditorExport

CONSTANTS own, cpp1, cpp2, root, output, inner, Unity, UnityFramework, so1, so2

\* cpp2 is a header: in the tree, in no phase.
MCCompiles == [t \in Targets |->
  IF t = GameAssembly THEN {cpp1} ELSE IF t = UnityFramework THEN {own} ELSE {}]

\* Without an externalNativeBuild block, with a short one, with one whose
\* cmake block has lines of its own, and with two.
MCScripts == {
  <<"open", "text", "close">>,
  <<"open", "native", "text", "close", "close">>,
  <<"open", "native", "open", "text", "close", "close", "close">>,
  <<"open", "native", "text", "close", "text", "native", "text", "close", "close">>}
=============================================================================
