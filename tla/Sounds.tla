------------------------------- MODULE Sounds -------------------------------
(***************************************************************************)
(* Sound packages (sound_packages.rs): folders of sound files, each with a *)
(* manifest from labels to files, and the Sounds tab that edits them       *)
(* (settings_window.rs).  A trigger plays a label, in the active package   *)
(* or else in the default one.                                             *)
(*                                                                         *)
(* Simplifications:                                                        *)
(* - Labels are numbers in the order of their names; the file made for a   *)
(*   label has the label's name, so two labels never share one (names that *)
(*   differ only in characters a file name may not have would).            *)
(* - File calls succeed, and the panel of a label is one step.             *)
(***************************************************************************)
EXTENDS Naturals, Sequences, FiniteSets, SequencesExt, Functions

CONSTANTS
  Packages,     \* names of packages, "default" among them
  Labels,       \* a set of numbers
  MaxChanges    \* bound on what the user does

ASSUME SoundsAssumption == Labels \subseteq Nat

Contents == {1, 2}
Exts == {"wav", "mp3"}
Empty == [x \in {} |-> 1]
NoZip == [files |-> Empty, manifest |-> Empty, meant |-> Empty, made |-> FALSE]

VARIABLES
  files,        \* of each package's folder that exists: files and contents
  manifest,     \* its package.toml: labels and files
  package,       \* the package the tab shows
  listed,       \* the labels the tab shows
  active,       \* the package the player uses
  zip,          \* an exported package
  meant,        \* ghost: what the user last assigned to each label
  changes

sndVars == <<files, manifest, package, listed, active, zip, meant, changes>>

SndInit ==
  /\ files = [p \in {"default"} |-> [f \in {<<1, "wav">>} |-> 1]]
  /\ manifest = [p \in {"default"} |-> [n \in {1} |-> <<1, "wav">>]]
  /\ meant = [p \in {"default"} |-> [n \in {1} |-> 1]]
  /\ package = "default" /\ listed = <<1>> /\ active = "default"
  /\ zip = NoZip /\ changes = 0

SndAct == changes < MaxChanges /\ changes' = changes + 1

With(f, x, v) == [y \in DOMAIN f \cup {x} |-> IF y = x THEN v ELSE f[y]]
But(f, S) == Restrict(f, DOMAIN f \ S)

Manifest(p) == IF p \in DOMAIN manifest THEN manifest[p] ELSE Empty

(* refresh_sound_labels: the labels by name. *)
Listed(m) ==
  [k \in 1..Cardinality(DOMAIN m) |->
     CHOOSE n \in DOMAIN m : Cardinality({x \in DOMAIN m : x < n}) = k - 1]

ShowPackage(p, m) == package' = p /\ listed' = Listed(m)

(* Choosing in the drop-down is what makes a package the active one. *)
SelectPackage(p) ==
  /\ SndAct /\ p \in DOMAIN files
  /\ ShowPackage(p, Manifest(p)) /\ active' = p
  /\ UNCHANGED <<files, manifest, zip, meant>>

(* unique_package_name *)
Free(p) == p \in Packages \ DOMAIN files

(* New: a copy of the default package, shown but not active. *)
NewPackage(p) ==
  /\ SndAct /\ Free(p)
  /\ files' = With(files, p, files["default"])
  /\ manifest' = With(manifest, p, manifest["default"])
  /\ meant' = With(meant, p, meant["default"])
  /\ ShowPackage(p, manifest["default"])
  /\ UNCHANGED <<active, zip>>

DeletePackage ==
  /\ SndAct /\ package # "default"
  /\ files' = But(files, {package}) /\ manifest' = But(manifest, {package})
  /\ meant' = But(meant, {package})
  /\ ShowPackage("default", manifest["default"])
  /\ UNCHANGED <<active, zip>>

ExportPackage ==
  /\ SndAct
  /\ zip' = [files |-> files[package], manifest |-> manifest[package],
             meant |-> meant[package], made |-> TRUE]
  /\ UNCHANGED <<files, manifest, package, listed, active, meant>>

ImportPackage(p) ==
  /\ SndAct /\ zip.made /\ Free(p)
  /\ files' = With(files, p, zip.files)
  /\ manifest' = With(manifest, p, zip.manifest)
  /\ meant' = With(meant, p, zip.meant)
  /\ ShowPackage(p, zip.manifest)
  /\ UNCHANGED <<active, zip>>

(* add_or_replace_label: the file is copied under the label's name, and the
   file the label had is removed unless another label has it. *)
AddOrReplace(m, n, content, ext, stale) ==
  LET file == <<n, ext>>
      m2 == With(m, n, file)
      gone == (stale \ {file}) \ Range(m2)
  IN /\ manifest' = [manifest EXCEPT ![package] = m2]
     /\ files' = [files EXCEPT ![package] = But(With(@, file, content), gone)]
     /\ ShowPackage(package, m2)

Had(m, n) == IF n \in DOMAIN m THEN {m[n]} ELSE {}

AddLabel(n, content, ext) ==
  /\ SndAct
  /\ LET m == manifest[package] IN AddOrReplace(m, n, content, ext, Had(m, n))
  /\ meant' = [meant EXCEPT ![package] = With(@, n, content)]
  /\ UNCHANGED <<active, zip>>

(* selected_label_entry: a row counts in the manifest as it is now. *)
Selected(row) == Listed(manifest[package])[row]

(* rename_label; a label that has the name already gives way. *)
RelabelNever(m, old, n) == m

Relabel(m, old, n) == IF n = old THEN m ELSE With(But(m, {old}), n, m[old])

(* Editing a label: rename, then replace by a picked file or by the file it
   has.  Which of two files of one name goes depends on their order. *)
EditLabel(row, n, source) ==
  /\ SndAct
  /\ row \in DOMAIN listed /\ row \in 1..Cardinality(DOMAIN manifest[package])
  /\ LET m == manifest[package]
         old == Selected(row)
         current == <<files[package][m[old]], m[old][2]>>
         new == IF source = <<>> THEN current ELSE source
         keeps == meant[package][listed[row]]
     IN /\ \E stale \in {{m[old]}, Had(m, n)} :
             (n \notin DOMAIN m => stale = {m[old]})
               /\ AddOrReplace(Relabel(m, old, n), n, new[1], new[2], stale)
        /\ meant' = [meant EXCEPT ![package] =
                       With(But(@, {listed[row]}), n, IF source = <<>> THEN keeps ELSE source[1])]
  /\ UNCHANGED <<active, zip>>

(* The file stays. *)
DeleteLabel(row) ==
  /\ SndAct
  /\ row \in DOMAIN listed /\ row \in 1..Cardinality(DOMAIN manifest[package])
  /\ LET m == But(manifest[package], {Selected(row)})
     IN manifest' = [manifest EXCEPT ![package] = m] /\ ShowPackage(package, m)
  /\ meant' = [meant EXCEPT ![package] = But(@, {listed[row]})]
  /\ UNCHANGED <<files, active, zip>>

SndNext ==
  \/ \E p \in Packages : SelectPackage(p) \/ NewPackage(p) \/ ImportPackage(p)
  \/ DeletePackage \/ ExportPackage
  \/ \E n \in Labels, c \in Contents, e \in Exts : AddLabel(n, c, e)
  \/ \E r \in 1..Cardinality(Labels), n \in Labels, s \in {<<>>} \cup (Contents \X Exts) :
       EditLabel(r, n, s)
  \/ \E r \in 1..Cardinality(Labels) : DeleteLabel(r)

SndSpec == SndInit /\ [][SndNext]_sndVars

-----------------------------------------------------------------------------
(* resolve_label: 0 is silence. *)
Resolve(p, n) ==
  LET q == IF n \in DOMAIN Manifest(p) THEN p ELSE "default"
  IN IF n \in DOMAIN Manifest(q) /\ manifest[q][n] \in DOMAIN files[q]
     THEN files[q][manifest[q][n]] ELSE 0

Intended(p, n) ==
  CASE p \in DOMAIN meant /\ n \in DOMAIN meant[p] -> meant[p][n]
    [] (p \in DOMAIN meant => n \notin DOMAIN meant[p]) /\ n \in DOMAIN meant["default"]
         -> meant["default"][n]
    [] OTHER -> 0

(* Whatever package is active, a label plays what the user last gave it
   there, or in the default package: no rename, edit or deletion removes or
   overwrites the file of another label, and no row of the tab stands for
   another label than it shows (sound_packages.rs:1-6, 117-122). *)
LabelsPlayTheirs == \A p \in Packages, n \in Labels : Resolve(p, n) = Intended(p, n)
=============================================================================
