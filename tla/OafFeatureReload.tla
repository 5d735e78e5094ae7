-------------------------- MODULE OafFeatureReload --------------------------
(***************************************************************************)
(* The feature library on its way into the kernel: the file the            *)
(* administrator uploads, the reload in oafd that sends it to the kernel   *)
(* line by line, and the list that the kernel keeps.                       *)
(*                                                                         *)
(* The daemon reloads in steps (names, clean, one message per line, end)   *)
(* because the upload page (another process) and its signal may come in    *)
(* between.  The upload copies over the open file, so a reload that is     *)
(* under way goes on in the new lines.  A line of the file is a sequence   *)
(* of features of one application; a line the daemon skips (a comment, or  *)
(* too short) is the empty sequence.  What a feature holds besides its     *)
(* application and its protocol is the business of OafFeatures.            *)
(***************************************************************************)
EXTENDS Integers, Sequences, SequencesExt

CONSTANTS
  InitialFiles,     \* what /tmp/feature.cfg may hold when oafd starts
  Uploads,          \* files the administrator uploads
  MaxUploads,       \* how often
  NoFile            \* there is no file

NoApp == 0

Files == (InitialFiles \cup Uploads) \ {NoFile}

\* The features of all files.
Features == UNION {UNION {Range(l) : l \in Range(f)} : f \in Files}

ASSUME UploadsAssumption == MaxUploads \in Nat /\ NoFile \notin Uploads
ASSUME FilesAssumption ==
  /\ Files \subseteq Seq(Seq(Features))
  /\ \A f \in Features : f.app # NoApp

VARIABLES
  file,             \* /tmp/feature.cfg, or NoFile
  uploaded,         \* uploads so far
  unsignalled,      \* the file has changed and SIGUSR1 is still to come
  g_feature_update, \* the flag the signal handler sets
  connected,        \* appfilter_nl_fd is open
  pc,               \* where reload_feature is
  line,             \* the next line fgets returns
  names,            \* applications in app_name_table
  features,         \* af_feature_head, the newest first
  missed            \* a signal came during a reload, and none after it

featureVars == <<file, uploaded, unsignalled, g_feature_update, connected, pc,
                 line, names, features, missed>>
upload == <<file, uploaded, unsignalled>>

(***************************************************************************)
(* From a line of the file to the list (af_init_feature, add_app_feature). *)
(***************************************************************************)

\* Faulty: the protocol is not looked at.
AcceptedAny(fs) == fs

\* A feature of another protocol than these is refused ...
Accepted(fs) ==
  FlattenSeq([i \in DOMAIN fs |-> IF fs[i].proto \in {"tcp", "udp"} THEN <<fs[i]>>
                                                                   ELSE << >>])

\* ... and each of the others goes to the head of the list.
AddFeatures(list, fs) == Reverse(Accepted(fs)) \o list

\* The list after a reload of the whole file.
Loaded(fl) == Reverse(FlattenSeq([i \in DOMAIN fl |-> Accepted(fl[i])]))
AppNames(fl) == {fl[i][1].app : i \in {j \in DOMAIN fl : fl[j] # << >>}}

------------------------------------------------------------------------------
Init ==
  /\ file \in InitialFiles
  /\ uploaded = 0 /\ unsignalled = FALSE
  /\ g_feature_update = TRUE          \* main sets it before the loop
  /\ connected = FALSE
  /\ pc = "idle" /\ line = 0
  /\ names = {} /\ features = << >>
  /\ missed = FALSE

(***************************************************************************)
(* oaf_timeout_handler and reload_feature.                                 *)
(***************************************************************************)

\* The netlink socket is opened once /proc/sys/oaf is there.
Connect ==
  /\ pc = "idle" /\ ~connected
  /\ connected' = TRUE
  /\ UNCHANGED <<upload, g_feature_update, pc, line, names, features, missed>>

\* Faulty: only a kernel that has no features yet is given some.
StartReloadOnce ==
  /\ pc = "idle" /\ g_feature_update /\ connected /\ features = << >>
  /\ pc' = "names"
  /\ UNCHANGED <<upload, g_feature_update, connected, line, names, features, missed>>

StartReload ==
  /\ pc = "idle" /\ g_feature_update /\ connected
  /\ pc' = "names"
  /\ UNCHANGED <<upload, g_feature_update, connected, line, names, features, missed>>

\* init_app_name_table keeps the old table when it cannot open the file.
ReadNames ==
  /\ pc = "names"
  /\ names' = IF file = NoFile THEN names ELSE AppNames(file)
  /\ pc' = "clean"
  /\ UNCHANGED <<upload, g_feature_update, connected, line, features, missed>>

\* Without a file the reload fails, and is tried again a second later.
OpenFails ==
  /\ pc = "clean" /\ file = NoFile
  /\ pc' = "idle"
  /\ missed' = FALSE
  /\ UNCHANGED <<upload, g_feature_update, connected, line, names, features>>

\* Faulty: the message is not sent.
CleanFeaturesSkipped ==
  /\ pc = "clean" /\ file # NoFile
  /\ pc' = "add" /\ line' = 1
  /\ UNCHANGED <<upload, g_feature_update, connected, names, features, missed>>

CleanFeatures ==
  /\ pc = "clean" /\ file # NoFile
  /\ features' = << >>
  /\ pc' = "add" /\ line' = 1
  /\ UNCHANGED <<upload, g_feature_update, connected, names, missed>>

AddLine ==
  /\ pc = "add" /\ line <= Len(file)
  /\ features' = AddFeatures(features, file[line])
  /\ line' = line + 1
  /\ UNCHANGED <<upload, g_feature_update, connected, pc, names, missed>>

\* The flag goes down whether or not it was set again meanwhile.
EndReload ==
  /\ pc = "add" /\ line > Len(file)
  /\ g_feature_update' = FALSE
  /\ pc' = "idle" /\ line' = 0
  /\ UNCHANGED <<upload, connected, names, features, missed>>

(***************************************************************************)
(* The upload page.                                                        *)
(***************************************************************************)
CopyFile(f) ==
  /\ uploaded < MaxUploads /\ ~unsignalled
  /\ file' = f
  /\ uploaded' = uploaded + 1 /\ unsignalled' = TRUE
  /\ UNCHANGED <<g_feature_update, connected, pc, line, names, features, missed>>

\* killall -SIGUSR1 oafd, and handle_sigusr1
Signal ==
  /\ unsignalled
  /\ unsignalled' = FALSE
  /\ g_feature_update' = TRUE
  /\ missed' = (pc # "idle")
  /\ UNCHANGED <<file, uploaded, connected, pc, line, names, features>>

DaemonStep == \/ Connect \/ StartReload \/ ReadNames \/ OpenFails
              \/ CleanFeatures \/ AddLine \/ EndReload

Next == DaemonStep \/ Signal \/ \E f \in Uploads : CopyFile(f)

\* The timer of the daemon runs every second and the page ends what it began.
Spec == Init /\ [][Next]_featureVars /\ WF_featureVars(DaemonStep)
             /\ WF_featureVars(Signal)

------------------------------------------------------------------------------
\* Types.  (oafd's state and af_feature_head)
FeaturesTypeOK ==
  /\ file \in InitialFiles \cup Uploads
  /\ uploaded \in 0 .. MaxUploads
  /\ {unsignalled, g_feature_update, connected, missed} \subseteq BOOLEAN
  /\ pc \in {"idle", "names", "clean", "add"}
  /\ line \in Nat /\ (pc # "add" => line = 0)
  /\ NoApp \notin names
  /\ \A i \in DOMAIN features : features[i].proto \in {"tcp", "udp"}

\* A kernel that is at rest runs the features of the file, under the names of
\* that file, unless the page has not signalled yet or its signal came during
\* a reload: no upload leaves a mixture of two files behind.
\* (oaf_timeout_handler, reload_feature, handle_sigusr1)
FeaturesCurrent ==
  (pc = "idle" /\ ~g_feature_update /\ ~unsignalled /\ ~missed) =>
    /\ file # NoFile
    /\ features = Loaded(file) /\ names = AppNames(file)

\* The features of the last upload come to stay, a missing file at the start
\* or a late kernel module notwithstanding; only a signal that comes during a
\* reload is lost.  (oaf_timeout_handler, the flag is kept when it fails)
UploadApplied ==
  <>[](file # NoFile /\ ~missed => features = Loaded(file) /\ names = AppNames(file))
=============================================================================
