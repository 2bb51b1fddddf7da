--------------------------- MODULE MCSearchFiles ---------------------------
(***************************************************************************)
(* SearchFiles on one small disk:                                          *)
(*   drive/    apps/  c.pfx (may vanish)  profile/  sys/                   *)
(*   profile/  downloads/  h.pfx (a hard link to a.pfx)                    *)
(*             link/ (a junction back to profile)                          *)
(*   downloads/  a.pfx  n.txt  sub/                                        *)
(*   sub/  b.pfx  e.pfx (may vanish or break off)                          *)
(*   apps/  f.pfx  g.pfx (may fail to open or break off)                   *)
(*   sys/  d.pfx (may not be listed)                                       *)
(* searched from downloads, profile and drive, in that order.              *)
(***************************************************************************)
EXTENDS SearchFiles, TLC, FiniteSetsExt

MCDir  == {"downloads", "profile", "drive", "sub", "sys", "apps", "link"}
MCFile == {"a.pfx", "b.pfx", "c.pfx", "d.pfx", "e.pfx", "f.pfx", "g.pfx", "h.pfx", "n.txt"}

InProfile == {"downloads", "h.pfx", "link"}

MCContents ==
    [d \in MCDir |->
        CASE d = "drive"     -> {"apps", "c.pfx", "profile", "sys"}
          [] d = "downloads" -> {"a.pfx", "n.txt", "sub"}
          [] d = "sub"       -> {"b.pfx", "e.pfx"}
          [] d = "apps"      -> {"f.pfx", "g.pfx"}
          [] d = "sys"       -> {"d.pfx"}
          [] OTHER           -> InProfile]

\* The hard link is the same file; the junction opens the same folder.
MCIdentity == [p \in MCDir \cup MCFile |->
                  CASE p = "h.pfx" -> "a.pfx"
                    [] p = "link"  -> "profile"
                    [] OTHER       -> p]

MCReparse == {"link"}
MCA1      == MCFile \ {"n.txt"}
MCRoots   == <<"downloads", "profile", "drive">>
Sorted    == <<"a.pfx", "apps", "b.pfx", "c.pfx", "d.pfx", "downloads", "drive", "e.pfx",
               "f.pfx", "g.pfx", "h.pfx", "link", "n.txt", "profile", "sub", "sys">>
MCRank    == [p \in MCDir \cup MCFile |-> CHOOSE i \in DOMAIN Sorted : Sorted[i] = p]

NoPaths     == {}
SysOnly     == {"sys"}
FlakyPaths  == {"sub", "c.pfx"}
AppsOnly    == {"apps"}

\* The phases that docs/06_BUSCA_DE_CERTIFICADOS.md:16-40 gives these roots.
Phase == "downloads" :> 1 @@ "profile" :> 2 @@ "drive" :> 4

\* The folders reached from root r.
Below(r) ==
    {d \in Dir : \A D \in SUBSET Dir :
        r \in D /\ (\A e \in D : Subfolders(e) \subseteq D) => d \in D}

\* A folder reached from several roots belongs to the first phase that has one.
PhaseOf(d) == Min({Phase[r] : r \in {q \in RootSet : d \in Below(q)}})

\* The phases are searched one after the other: "Fase 2 - Perfil atual.
\* Percorrer o restante do perfil, descontando diretorios ja processados" comes
\* before the drives of phase 4 (docs/06_BUSCA_DE_CERTIFICADOS.md:26-36).  Not
\* so in the code: search_files puts the sub-folders of a root behind all the
\* roots (src/search.cpp:118 and 170).
PhasesInTurn ==
    \A i, j \in DOMAIN opened : i < j => PhaseOf(opened[i]) <= PhaseOf(opened[j])

=============================================================================
