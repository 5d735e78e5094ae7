-------------------------- MODULE OafFeatureProofs ---------------------------
(***************************************************************************)
(* Theorems about OafFeatureReload, for every set of files and any number  *)
(* of uploads.                                                             *)
(***************************************************************************)
EXTENDS OafFeatureReload, SequenceLemmas, TLAPS

-----------------------------------------------------------------------------
(* The list of features and the file.                                      *)

\* The features that the kernel takes.
Wanted == {f \in Features : f.proto \in {"tcp", "udp"}}

\* af_init_feature keeps features of the two protocols only.
LEMMA AcceptedType ==
  ASSUME NEW fs \in Seq(Features)
  PROVE  Accepted(fs) \in Seq(Wanted)
<1> DEFINE s == [i \in DOMAIN fs |-> IF fs[i].proto \in {"tcp", "udp"} THEN <<fs[i]>>
                                                                     ELSE << >>]
<1>1. ASSUME NEW i \in 1 .. Len(fs)
      PROVE  (IF fs[i].proto \in {"tcp", "udp"} THEN <<fs[i]>> ELSE << >>) \in Seq(Wanted)
  <2>1. fs[i] \in Features
    OBVIOUS
  <2>2. << >> \in Seq(Wanted)
    OBVIOUS
  <2>3. CASE fs[i].proto \in {"tcp", "udp"}
    <3>1. fs[i] \in Wanted
      BY <2>1, <2>3 DEF Wanted
    <3> QED
      BY <2>3, <3>1
  <2> QED
    BY <2>2, <2>3
<1>2. s \in Seq(Seq(Wanted))
  <2>1. DOMAIN fs = 1 .. Len(fs) /\ Len(fs) \in Nat
    OBVIOUS
  <2>2. s = [i \in 1 .. Len(fs) |-> s[i]]
    BY <2>1
  <2>3. \A i \in 1 .. Len(fs) : s[i] \in Seq(Wanted)
    BY <1>1, <2>1
  <2> HIDE DEF s
  <2> QED
    BY <2>1, <2>2, <2>3
<1>3. Accepted(fs) = FlattenSeq(s)
  BY Zenon DEF Accepted
<1> HIDE DEF s
<1> QED
  BY <1>2, <1>3, FlattenType

\* What the kernel accepts of the first k lines of a file.
Parts(fl, k) == [i \in 1 .. k |-> Accepted(fl[i])]

\* It consists of lists of accepted features.
LEMMA PartsType ==
  ASSUME NEW fl \in Seq(Seq(Features)), NEW k \in 0 .. Len(fl)
  PROVE  Parts(fl, k) \in Seq(Seq(Wanted))
<1>1. \A i \in 1 .. k : fl[i] \in Seq(Features)
  OBVIOUS
<1>2. \A i \in 1 .. k : Accepted(fl[i]) \in Seq(Wanted)
  BY <1>1, AcceptedType
<1> QED
  BY <1>2 DEF Parts

\* A list loaded from the first k lines, in terms of these parts.
LEMMA LoadedParts ==
  ASSUME NEW fl \in Seq(Seq(Features)), NEW k \in 0 .. Len(fl)
  PROVE  Loaded(SubSeq(fl, 1, k)) = Reverse(FlattenSeq(Parts(fl, k)))
<1> DEFINE t == SubSeq(fl, 1, k)
<1>1. DOMAIN t = 1 .. k /\ \A i \in 1 .. k : t[i] = fl[i]
  OBVIOUS
<1> HIDE DEF t
<1>2. [i \in DOMAIN t |-> Accepted(t[i])] = Parts(fl, k)
  BY <1>1 DEF Parts
<1>3. Loaded(t) = Reverse(FlattenSeq([i \in DOMAIN t |-> Accepted(t[i])]))
  BY Zenon DEF Loaded
<1>4. Loaded(t) = Reverse(FlattenSeq(Parts(fl, k)))
  BY <1>2, <1>3
<1> QED
  BY <1>4 DEF t

\* The whole file is its first Len(fl) lines.
LEMMA LoadedWhole ==
  ASSUME NEW fl \in Seq(Seq(Features))
  PROVE  Loaded(SubSeq(fl, 1, Len(fl))) = Loaded(fl)
<1>1. SubSeq(fl, 1, Len(fl)) = fl
  OBVIOUS
<1> QED
  BY <1>1

\* Before the first line the list is empty.
LEMMA LoadedNone ==
  ASSUME NEW fl \in Seq(Seq(Features))
  PROVE  Loaded(SubSeq(fl, 1, 0)) = << >>
<1>1. 0 \in 0 .. Len(fl)
  OBVIOUS
<1>2. Parts(fl, 0) = << >>
  BY DEF Parts
<1>3. FlattenSeq(Parts(fl, 0)) = << >>
  BY <1>2, FlattenNone
<1>4. Reverse(<< >>) = << >>
  BY DEF Reverse
<1> QED
  BY <1>1, <1>3, <1>4, LoadedParts

\* The message for the next line makes the list of one line more.
LEMMA LoadedNext ==
  ASSUME NEW fl \in Seq(Seq(Features)), NEW k \in Nat, k + 1 <= Len(fl)
  PROVE  Loaded(SubSeq(fl, 1, k + 1)) = AddFeatures(Loaded(SubSeq(fl, 1, k)), fl[k + 1])
<1> DEFINE n == k + 1
           p == Parts(fl, k)
           e == Accepted(fl[n])
<1>1. k \in 0 .. Len(fl) /\ n \in 0 .. Len(fl) /\ n \in 1 .. n
  OBVIOUS
<1>2. p \in Seq(Seq(Wanted)) /\ Len(p) = k
  <2>1. p \in Seq(Seq(Wanted))
    BY <1>1, PartsType
  <2>2. DOMAIN p = 1 .. k
    BY DEF Parts
  <2> HIDE DEF p
  <2> QED
    BY <2>1, <2>2
<1>3. e \in Seq(Wanted)
  <2>1. fl[n] \in Seq(Features)
    BY <1>1
  <2> QED
    BY <2>1, AcceptedType
<1>4. Parts(fl, n) = Append(p, e)
  <2>1. \A i \in 1 .. k : Parts(fl, n)[i] = p[i]
    BY DEF Parts
  <2>2. Parts(fl, n)[n] = e
    BY <1>1 DEF Parts
  <2>3. Parts(fl, n) \in Seq(Seq(Wanted)) /\ Len(Parts(fl, n)) = n
    <3>1. Parts(fl, n) \in Seq(Seq(Wanted))
      BY <1>1, PartsType
    <3>2. DOMAIN Parts(fl, n) = 1 .. n
      BY DEF Parts
    <3> QED
      BY <1>1, <3>1, <3>2
  <2> HIDE DEF p, e
  <2> QED
    BY <1>2, <1>3, <2>1, <2>2, <2>3, SMTT(20)
<1>5. FlattenSeq(Append(p, e)) = FlattenSeq(p) \o e
  <2> HIDE DEF p, e
  <2> QED
    BY <1>2, <1>3, FlattenAppend
<1>6. FlattenSeq(p) \in Seq(Wanted)
  <2> HIDE DEF p
  <2> QED
    BY <1>2, FlattenType
<1>7. Reverse(FlattenSeq(p) \o e) = Reverse(e) \o Reverse(FlattenSeq(p))
  <2> DEFINE q == FlattenSeq(p)
  <2>1. q \in Seq(Wanted)
    BY <1>6
  <2> HIDE DEF q, e
  <2>2. Reverse(q \o e) = Reverse(e) \o Reverse(q)
    BY <1>3, <2>1, ReverseConcat
  <2> QED
    BY <2>2 DEF q
<1>8. Loaded(SubSeq(fl, 1, k)) = Reverse(FlattenSeq(p))
  BY <1>1, LoadedParts
<1>9. Loaded(SubSeq(fl, 1, n)) = Reverse(FlattenSeq(Append(p, e)))
  <2> HIDE DEF n, p, e
  <2> QED
    BY <1>1, <1>4, LoadedParts
<1>10. AddFeatures(Loaded(SubSeq(fl, 1, k)), fl[n]) = Reverse(e) \o Loaded(SubSeq(fl, 1, k))
  BY DEF AddFeatures
<1> HIDE DEF p, e
<1> QED
  BY <1>5, <1>7, <1>8, <1>9, <1>10

-----------------------------------------------------------------------------
(* Type correctness.                                                       *)

\* What the types of the list and of the reload under way need.
TypeInv ==
  /\ FeaturesTypeOK
  /\ features \in Seq(Wanted)
  /\ pc = "add" => file # NoFile /\ line # 0

\* A file is a sequence of lines of features, and its names are of
\* applications.
LEMMA FileType ==
  ASSUME NEW f \in InitialFiles \cup Uploads, f # NoFile
  PROVE  f \in Seq(Seq(Features)) /\ NoApp \notin AppNames(f)
<1>1. f \in Seq(Seq(Features))
  BY FilesAssumption DEF Files
<1>2. ASSUME NEW i \in DOMAIN f, f[i] # << >> PROVE f[i][1].app # NoApp
  <2>1. f[i] \in Seq(Features)
    BY <1>1
  <2>2. f[i][1] \in Features
    BY <1>2, <2>1
  <2> QED
    BY <2>2, FilesAssumption
<1> QED
  BY <1>1, <1>2 DEF AppNames

\* The list stays one of accepted features.
LEMMA AddFeaturesType ==
  ASSUME NEW list \in Seq(Wanted), NEW fs \in Seq(Features)
  PROVE  AddFeatures(list, fs) \in Seq(Wanted)
<1> DEFINE e == Accepted(fs)
<1>1. e \in Seq(Wanted)
  BY AcceptedType
<1>2. AddFeatures(list, fs) = Reverse(e) \o list
  BY DEF AddFeatures
<1> HIDE DEF e
<1>3. Reverse(e) \in Seq(Wanted)
  BY <1>1, ReverseConcat
<1> QED
  BY <1>2, <1>3

\* Elements of such a list have one of the two protocols.
LEMMA WantedProto ==
  ASSUME NEW list \in Seq(Wanted)
  PROVE  \A i \in DOMAIN list : list[i].proto \in {"tcp", "udp"}
BY DEF Wanted

\* The strengthened type invariant is inductive.
LEMMA TypeHolds == Spec => []TypeInv
<1>1. Init => TypeInv
  <2> SUFFICES ASSUME Init PROVE TypeInv
    OBVIOUS
  <2>1. uploaded \in 0 .. MaxUploads /\ line \in Nat
    BY UploadsAssumption DEF Init
  <2>2. features \in Seq(Wanted)
    BY DEF Init
  <2>3. \A i \in DOMAIN features : features[i].proto \in {"tcp", "udp"}
    BY <2>2, WantedProto
  <2> QED
    BY <2>1, <2>2, <2>3 DEF Init, TypeInv, FeaturesTypeOK
<1>2. TypeInv /\ [Next]_featureVars => TypeInv'
  <2> SUFFICES ASSUME TypeInv, [Next]_featureVars PROVE TypeInv'
    OBVIOUS
  <2> USE DEF upload, FeaturesTypeOK, TypeInv
  <2>1. CASE Connect
    BY <2>1 DEF Connect
  <2>2. CASE StartReload
    BY <2>2 DEF StartReload
  <2>3. CASE ReadNames
    <3>1. file # NoFile => NoApp \notin AppNames(file)
      BY FileType
    <3>2. NoApp \notin names'
      BY <2>3, <3>1 DEF ReadNames
    <3> QED
      BY <2>3, <3>2 DEF ReadNames
  <2>4. CASE OpenFails
    BY <2>4 DEF OpenFails
  <2>5. CASE CleanFeatures
    <3>1. features' \in Seq(Wanted) /\ DOMAIN features' = {}
      BY <2>5 DEF CleanFeatures
    <3> QED
      BY <2>5, <3>1 DEF CleanFeatures
  <2>6. CASE AddLine
    <3>1. file[line] \in Seq(Features)
      <4>1. file \in Seq(Seq(Features))
        BY <2>6, FileType DEF AddLine
      <4>2. line \in 1 .. Len(file)
        BY <2>6, <4>1 DEF AddLine
      <4> QED
        BY <4>1, <4>2
    <3>2. features' \in Seq(Wanted)
      BY <2>6, <3>1, AddFeaturesType DEF AddLine
    <3>3. (\A i \in DOMAIN features : features[i].proto \in {"tcp", "udp"})'
      BY <3>2, WantedProto
    <3>4. line' \in Nat /\ line' # 0
      BY <2>6 DEF AddLine
    <3> QED
      BY <2>6, <3>2, <3>3, <3>4 DEF AddLine
  <2>7. CASE EndReload
    BY <2>7 DEF EndReload
  <2>8. CASE Signal
    BY <2>8 DEF Signal
  <2>9. CASE \E f \in Uploads : CopyFile(f)
    <3>1. PICK f \in Uploads : CopyFile(f)
      BY <2>9
    <3>2. f # NoFile
      BY UploadsAssumption
    <3>3. uploaded' \in 0 .. MaxUploads
      BY <3>1, UploadsAssumption DEF CopyFile
    <3> QED
      BY <3>1, <3>2, <3>3 DEF CopyFile
  <2>10. CASE UNCHANGED featureVars
    BY <2>10 DEF featureVars
  <2> QED
    BY <2>1, <2>2, <2>3, <2>4, <2>5, <2>6, <2>7, <2>8, <2>9, <2>10 DEF Next, DaemonStep
<1> QED
  BY <1>1, <1>2, PTL DEF Spec

\* Every state the reload can reach is well typed; in particular no feature
\* of another protocol gets into af_feature_head and no name stands for "no
\* application".
\* (reload_feature, af_init_feature, init_app_name_table, handle_sigusr1)
THEOREM TypeCorrect == Spec => []FeaturesTypeOK
<1>1. TypeInv => FeaturesTypeOK
  BY DEF TypeInv
<1> QED
  BY <1>1, TypeHolds, PTL

-----------------------------------------------------------------------------
(* The features at rest are those of the file.                             *)

\* No upload is waiting for its signal, and none was signalled too early.
Undisturbed == ~unsignalled /\ ~missed

\* The lines before the next one are in the list, and nothing else.
LinesSent ==
  line - 1 <= Len(file) /\ features = Loaded(SubSeq(file, 1, line - 1))

\* A reload that nobody disturbs works its way through one file, with the
\* flag set until it ends.
ReloadInv ==
  /\ pc # "idle" => g_feature_update
  /\ Undisturbed /\ pc = "clean" /\ file # NoFile => names = AppNames(file)
  /\ Undisturbed /\ pc = "add" => names = AppNames(file) /\ LinesSent
  /\ FeaturesCurrent

\* A kernel at rest has the features and the names of the file, all of them
\* and no others, in the order the messages give: an upload at any moment of
\* a reload leaves no mixture behind, unless its signal comes during a reload.
\* (oaf_timeout_handler, reload_feature, handle_sigusr1, af_feature_handler)
THEOREM ReloadsCurrent == Spec => []FeaturesCurrent
<1>1. Init => ReloadInv
  BY DEF Init, ReloadInv, FeaturesCurrent
<1>2. TypeInv /\ ReloadInv /\ [Next]_featureVars => ReloadInv'
  <2> SUFFICES ASSUME TypeInv, ReloadInv, [Next]_featureVars PROVE ReloadInv'
    OBVIOUS
  <2>0. /\ pc = "add" => file # NoFile
        /\ file # NoFile => file \in Seq(Seq(Features))
        /\ line \in Nat /\ (pc = "add" => line # 0)
    BY FileType DEF TypeInv, FeaturesTypeOK
  <2> USE DEF upload, ReloadInv, Undisturbed, FeaturesCurrent
  <2>1. CASE Connect
    BY <2>1 DEF Connect, LinesSent
  <2>2. CASE StartReload
    BY <2>2 DEF StartReload
  <2>3. CASE ReadNames
    BY <2>3 DEF ReadNames
  <2>4. CASE OpenFails
    BY <2>4 DEF OpenFails
  <2>5. CASE CleanFeatures
    <3>1. file' = file /\ file \in Seq(Seq(Features)) /\ line' = 1 /\ features' = << >>
      BY <2>0, <2>5 DEF CleanFeatures
    <3>2. line' - 1 = 0 /\ Loaded(SubSeq(file, 1, 0)) = << >>
      BY <3>1, LoadedNone
    <3>3. 0 <= Len(file)
      BY <3>1
    <3>4. LinesSent'
      BY <3>1, <3>2, <3>3 DEF LinesSent
    <3> QED
      BY <2>5, <3>4 DEF CleanFeatures
  <2>6. CASE AddLine
    <3>1. /\ file' = file /\ file \in Seq(Seq(Features)) /\ line' = line + 1
          /\ features' = AddFeatures(features, file[line])
          /\ line \in Nat /\ line # 0 /\ line <= Len(file)
      BY <2>0, <2>6 DEF AddLine
    <3>2. LinesSent => LinesSent'
      <4> SUFFICES ASSUME LinesSent PROVE LinesSent'
        OBVIOUS
      <4> DEFINE k == line - 1
      <4>1. k \in Nat /\ k + 1 = line /\ line' - 1 = line
        BY <3>1
      <4>2. features = Loaded(SubSeq(file, 1, k))
        BY DEF LinesSent
      <4> HIDE DEF k
      <4>3. Loaded(SubSeq(file, 1, k + 1)) = AddFeatures(Loaded(SubSeq(file, 1, k)), file[k + 1])
        BY <3>1, <4>1, LoadedNext
      <4>4. features' = Loaded(SubSeq(file, 1, line))
        BY <3>1, <4>1, <4>2, <4>3
      <4> QED
        BY <3>1, <4>1, <4>4 DEF LinesSent
    <3> QED
      BY <2>6, <3>2 DEF AddLine
  <2>7. CASE EndReload
    <3>1. file # NoFile /\ file \in Seq(Seq(Features)) /\ line \in Nat /\ line > Len(file)
      BY <2>0, <2>7 DEF EndReload
    <3>2. LinesSent => features = Loaded(file)
      <4> SUFFICES ASSUME LinesSent PROVE features = Loaded(file)
        OBVIOUS
      <4>1. line - 1 = Len(file)
        BY <3>1 DEF LinesSent
      <4> QED
        BY <3>1, <4>1, LoadedWhole DEF LinesSent
    <3> QED
      BY <2>7, <3>1, <3>2 DEF EndReload
  <2>8. CASE Signal
    BY <2>8 DEF Signal
  <2>9. CASE \E f \in Uploads : CopyFile(f)
    <3>1. PICK f \in Uploads : CopyFile(f)
      BY <2>9
    <3> QED
      BY <3>1 DEF CopyFile
  <2>10. CASE UNCHANGED featureVars
    BY <2>10 DEF featureVars, LinesSent
  <2> QED
    BY <2>1, <2>2, <2>3, <2>4, <2>5, <2>6, <2>7, <2>8, <2>9, <2>10 DEF Next, DaemonStep
<1>3. ReloadInv => FeaturesCurrent
  BY DEF ReloadInv
<1> QED
  BY <1>1, <1>2, <1>3, TypeHolds, PTL DEF Spec

=============================================================================
