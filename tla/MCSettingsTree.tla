--------------------------- MODULE MCSettingsTree ---------------------------
(***************************************************************************)
(* One screen.  The root may hold the options x and g, of which g is       *)
(* global only, the sub-object bar with y, and the global-only sub-object  *)
(* vpn with z; s is a key no schema knows.                                 *)
(***************************************************************************)
EXTENDS SettingsTree

CONSTANTS all, screen, root, x, g, y, z, bar, vpn, s, v1, v2, array, FileRaw

MCHome == [k \in Keys |-> CASE k = y -> bar [] k = z -> vpn [] OTHER -> root]
MCDefault == [l \in Leaves |-> v1]

\* Documents with one key besides the sub-object that holds it, or v2 everywhere,
\* and of the values in FileRaw only.
Present(d) == {k \in Keys : d[k] \notin {Absent, Obj}}
MCFileDocs ==
  [L \in Layers |->
     {d \in DocsOf(L) : /\ \A k \in Present(d) : d[k] \in FileRaw
                        /\ \/ \E k \in Keys : Present(d) \subseteq {k}
                           \/ \A l \in Leaves : d[l] \in {v2, Absent}}
     \cup {array}]
=============================================================================
