------------------------- MODULE ProtectedDirectory -------------------------
(***************************************************************************)
(* ensure_protected_directory (protected_directory.rs), call by call,      *)
(* while other programs create, replace and remove what is at the path.    *)
(* Each Windows call sees the file system as it is then, and may fail.     *)
(***************************************************************************)
EXTENDS Naturals

CONSTANTS MaxChanges  \* changes other programs make during a call
ASSUME DirectoryAssumption == MaxChanges \in Nat

Object == {"none", "directory", "file", "reparse_point"}

VARIABLES
    target, parent,  \* what is at the path and at its parent's
    dacl,            \* of the target: "inherited" or "protected" (PROTECTED_DIRECTORY_SDDL)
    outside,         \* DACL of what a link at the path leads to: "own" or "protected"
    swapped,         \* history: others changed the object after the call's last look at it
    dir_pc, dir_result, changes
directory_vars == <<target, parent, dacl, outside, swapped, dir_pc, dir_result, changes>>

DirectoryInit ==
    /\ target \in Object /\ parent \in {"none", "directory", "file"}
    /\ (target # "none" => parent = "directory")
    /\ dacl = "inherited" /\ outside = "own" /\ swapped = FALSE
    /\ dir_pc = "check_path" /\ dir_result = "none" /\ changes = 0

dir_at(p) == dir_pc = p
dir_goto(p) == dir_pc' = p /\ UNCHANGED dir_result
dir_return(r) == dir_pc' = "returned" /\ dir_result' = r
unchanged_world == UNCHANGED <<target, parent, dacl, outside, swapped, changes>>

check_path ==
    /\ dir_at("check_path") /\ unchanged_world
    /\ dir_goto("attributes") \/ dir_return("InvalidPath")         \* empty, or with a NUL inside

validate_existing_attributes(o) ==
    CASE o = "reparse_point" -> "TargetIsReparsePoint"
      [] o = "file" -> "TargetExistsAndNotDirectory"
      [] OTHER -> "Ok"
existing == IF validate_existing_attributes(target) = "Ok" THEN dir_goto("apply_dacl")
                                                          ELSE dir_return(validate_existing_attributes(target))
get_attributes ==
    /\ dir_at("attributes") /\ unchanged_world
    /\ \/ target # "none" /\ existing
       \/ target = "none" /\ dir_goto("check_parent")
       \/ dir_return("WindowsApi")
check_parent ==
    /\ dir_at("check_parent") /\ unchanged_world
    /\ \/ parent = "none" /\ dir_return("ParentMissing")
       \/ parent = "file" /\ dir_return("InvalidPath")
       \/ parent = "directory" /\ dir_goto("create")
       \/ dir_return("WindowsApi")

(* CreateDirectoryW with the descriptor; the target may have come, or its  *)
(* parent gone, since the checks.                                          *)
create ==
    /\ dir_at("create") /\ UNCHANGED <<parent, outside, swapped, changes>>
    /\ \/ /\ target = "none" /\ parent = "directory"
          /\ target' = "directory" /\ dacl' = "protected" /\ dir_return("Ok")
       \/ target # "none" /\ dir_goto("recheck") /\ UNCHANGED <<target, dacl>>
       \/ target = "none" /\ parent # "directory" /\ dir_return("ParentMissing") /\ UNCHANGED <<target, dacl>>
       \/ dir_return("WindowsApi") /\ UNCHANGED <<target, dacl>>
MutTrustsWinner == dir_return("Ok")
raced == existing
recheck ==
    /\ dir_at("recheck") /\ unchanged_world
    /\ \/ target # "none" /\ raced
       \/ target = "none" /\ dir_return("WindowsApi")

(* apply_protected_dacl_to_existing_directory: SetNamedSecurityInfoW takes *)
(* a path, and follows the link that may have come to be there.            *)
apply_dacl ==
    /\ dir_at("apply_dacl") /\ UNCHANGED <<target, parent, swapped, changes>>
    /\ \/ /\ target \in {"directory", "file"} /\ dacl' = "protected" /\ UNCHANGED outside
          /\ dir_return("Ok")
       \/ /\ target = "reparse_point" /\ outside' = "protected" /\ UNCHANGED dacl
          /\ dir_return("Ok")
       \/ dir_return("WindowsApi") /\ UNCHANGED <<dacl, outside>>

(* Other programs.  A replaced object comes with a DACL of its own.        *)
world_changes ==
    /\ changes < MaxChanges /\ dir_pc # "returned" /\ changes' = changes + 1
    /\ \/ /\ parent = "directory" /\ target' \in Object \ {target} /\ dacl' = "inherited"
          /\ swapped' = IF dir_pc = "apply_dacl" THEN TRUE ELSE swapped
          /\ UNCHANGED parent
       \/ /\ target = "none" /\ parent' \in {"none", "directory", "file"} \ {parent}
          /\ UNCHANGED <<target, dacl, swapped>>
    /\ UNCHANGED <<outside, dir_pc, dir_result>>

DirectoryNext ==
    \/ check_path \/ get_attributes \/ check_parent \/ create \/ recheck \/ apply_dacl
    \/ world_changes
    \/ dir_pc = "returned" /\ UNCHANGED directory_vars
DirectorySpec == DirectoryInit /\ [][DirectoryNext]_directory_vars

-----------------------------------------------------------------------------
(* Ok means a protected directory at the path, whoever created it and      *)
(* whatever happened before the call's last look (protected_directory.rs:  *)
(* 283).  What takes its place after that is not recognised, but a         *)
(* directory then is protected as well.                                    *)
OkIsProtected ==
    dir_result = "Ok" => \/ target = "directory" /\ dacl = "protected"
                         \/ target # "directory" /\ swapped

(* A link that the call has looked at is never followed.                   *)
LinksNotFollowed == outside = "protected" => swapped /\ dir_result = "Ok"

(* A refusal has set no DACL, and undisturbed it names what is there.      *)
RefusalsChangeNothing ==
    dir_pc = "returned" /\ dir_result # "Ok" =>
        /\ dacl = "inherited" /\ outside = "own"
        /\ changes = 0 /\ dir_result \in {"ParentMissing", "TargetExistsAndNotDirectory"} =>
              target # "directory"

(* Ok protects the directory and nothing else, and a refusal leaves alone. *)
DirectorySafe == OkIsProtected /\ LinksNotFollowed /\ RefusalsChangeNothing
=============================================================================
