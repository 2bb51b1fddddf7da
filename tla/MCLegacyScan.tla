--------------------------- MODULE MCLegacyScan ---------------------------
(***************************************************************************)
(* LegacyScan on two small disks: a profile in which Downloads, Desktop    *)
(* and Documents lie and a junction leads back up, with Desktop offered    *)
(* under another spelling; and an archive, given with --scan-root under a  *)
(* long and under a short name, with folders at the two sides of MAX_PATH. *)
(***************************************************************************)
EXTENDS LegacyScan

MCFolder == {"profile", "downloads", "sub", "desktop", "documents", "link",
             "archive", "long", "vault", "longer"}
MCFile   == {"a.pfx", "b.p12", "c.pfx", "d.pfx", "e.txt", "f.pfx", "g.pfx", "h.pfx", "i.pfx"}

MCContents ==
    [d \in MCFolder |->
        CASE d \in {"profile", "link"} -> {"downloads", "desktop", "documents", "link"}
          [] d = "downloads" -> {"sub", "a.pfx", "e.txt"}
          [] d = "sub"       -> {"b.p12"}
          [] d = "desktop"   -> {"c.pfx"}
          [] d = "documents" -> {"d.pfx", "link"}
          [] d = "archive"   -> {"long", "vault", "f.pfx"}
          [] d = "long"      -> {"g.pfx"}
          [] d = "vault"     -> {"longer", "h.pfx"}
          [] d = "longer"    -> {"i.pfx"}]

MCJunction  == {"link"}
MCContainer == MCFile \ {"e.txt"}

\* Below "C:", "long" may be queued but not listed, "vault" is just short enough
\* to be listed, and "longer" in it may not even be queued.
MCLength == [p \in Spelling \X MCFolder |->
                IF p[1] = "short" THEN 1
                ELSE CASE p[2] = "long"   -> MaxPath - 1
                       [] p[2] = "vault"  -> MaxPath - 4
                       [] p[2] = "longer" -> MaxPath
                       [] OTHER           -> 1]

\* The junction leads to the profile.
MCDepth == [d \in MCFolder |->
               CASE d \in {"profile", "link", "archive"} -> 1
                 [] d \in {"sub", "longer"} -> 3
                 [] OTHER -> 2]

At(d, s) == [dir |-> d, spelling |-> s]

MCOffers == {<<At("downloads", "C:"), At("desktop", "short"), At("documents", "C:"), At("profile", "C:")>>,
             <<At("profile", "C:"), At("profile", "C:")>>,
             <<At("archive", "C:")>>, <<At("archive", "short")>>, <<At("vault", "C:")>>}

Names  == <<"C:", "short", "a.pfx", "b.p12", "c.pfx", "d.pfx", "e.txt", "f.pfx", "g.pfx", "h.pfx",
            "i.pfx">>
MCRank == [n \in Range(Names) |-> CHOOSE i \in DOMAIN Names : Names[i] = n]
=============================================================================
