----------------------------- MODULE ImageTags -----------------------------
(***************************************************************************)
(* Image tags and the decisions the operator takes by reading them         *)
(* (reconciler.py).  A tag is <driver>-flatcar<flatcar> for a runtime      *)
(* image, <driver>-<kernel>-flatcar<flatcar> for a precompiled one; the    *)
(* kernel only matters in that it is there.  Extends holds the pairs       *)
(* <<d, e>> of valid driver versions where e is d followed by a dash and a *)
(* suffix, as 550.54.15-beta extends 550.54.15: the text of a tag does not *)
(* say where the driver version ends.                                      *)
(***************************************************************************)
CONSTANTS Drivers, Flatcars, Extends

ASSUME ExtendsIsRelation == Extends \subseteq Drivers \X Drivers

Keys == [driver : Drivers, flatcar : Flatcars]
ImageTag == [driver : Drivers, flatcar : Flatcars, kernel : BOOLEAN]

(* The tag the build of a key pushes (runtime_tag, and the output reference*)
(* of the precompile command).                                             *)
TagOf(k, precompile) == [driver |-> k.driver, flatcar |-> k.flatcar, kernel |-> precompile]

(* Prefix <driver>-, suffix -flatcar<flatcar>, and something in between:   *)
(* a kernel, or the rest of a longer driver version.                       *)
matches_precompile_tag(k, tag) ==
    /\ tag.flatcar = k.flatcar
    /\ (tag.driver = k.driver /\ tag.kernel) \/ <<k.driver, tag.driver>> \in Extends

(* How passes recognize the image of a key when they judge Jobs and report *)
(* (_key_has_registry_tag, and built in the status payload) ...            *)
HasTag(k, precompile, existing) ==
    IF precompile THEN \E tag \in existing : matches_precompile_tag(k, tag)
    ELSE TagOf(k, FALSE) \in existing

(* ... and when they decide what to build: here the tag is parsed, and the *)
(* parser finds where the driver version ends.                             *)
parse_tag(tag) == [driver |-> tag.driver, flatcar |-> tag.flatcar]

compute_desired(driverVersions, flatcars) ==
    {[driver |-> d, flatcar |-> f] : d \in driverVersions, f \in flatcars}

compute_missing(desired, existing, inFlight, precompile) ==
    LET built == {parse_tag(tag) : tag \in {e \in existing : e.kernel = precompile}}
    IN  desired \ (built \cup inFlight)
=============================================================================
