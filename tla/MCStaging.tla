------------------------------ MODULE MCStaging ------------------------------
(* Instances of Staging for TLC: two roots and an optional one, a chain      *)
(* below them, a cycle, a library of the ramdisk and one that is shared.      *)
EXTENDS Staging

MCLibs    == {"egl", "gles", "es1", "srv", "ui", "log"}
MCRoots   == <<"egl", "gles", "es1">>
MCShared  == {"c"}
MCRamdisk == {"log"}
MCPhones  == {MCLibs} \cup {MCLibs \ {l} : l \in {"gles", "es1", "ui"}}

MCNeeds ==
    [l \in MCLibs |->
       CASE l = "egl"  -> {"srv", "c"}
         [] l = "gles" -> {"srv", "egl"}
         [] l = "es1"  -> {"srv"}
         [] l = "srv"  -> {"log", "c"}
         [] l = "log"  -> {"ui", "c"}
         [] l = "ui"   -> {"c"}]

\* Every failure and every signal, but a cp that fails half way.
AllButPartialCopy == {"map", "mount", "copy", "load", "umount", "unmap", "stuck", "term", "kill"}

=============================================================================
