----------------------------- MODULE MCServices -----------------------------
(***************************************************************************)
(* The system services and the frame capture, which share no state with    *)
(* one another, on small instances: a behaviour is one of the service      *)
(* focus names.                                                            *)
(***************************************************************************)
EXTENDS Trophy, Modules, TitleContent, VfsPaths, GuestDirs, RtcClock,
        GuestExceptions, Capture

CONSTANT Foci
VARIABLE focus

vars == <<focus, trophy_vars, mod_vars, app_vars, playgo_vars, path_vars, dir_vars, rtc_vars, ex_vars,
          sel_vars, cap_vars, mf_vars>>

\* One of a set, for the services the behaviour is not about.
Some(S) == CHOOSE x \in S : TRUE

\* sysmodule: two spellings of one file, libc and the module ranges.
StemOf(f) == IF f = "a.sprx" THEN "a.prx" ELSE f
RangeOf(f) == IF f = "libc.prx" THEN <<1, 3>> ELSE <<4, 6>>
MainIs == <<0, 8>>
IdRanges == {<<0, 1>>, <<8, 1>>}

\* app content: what is on disk, with add-ons of the title and shared ones.
AddOn(l, a, d) == [label |-> l, addcont |-> a, dir |-> <<"addcont", d>>]
Disk(t, c, x, p, a, s, w) == [title |-> t, content |-> c, txt |-> x, param |-> p, app |-> a, shared |-> s, writable |-> w]
Disks == {Disk("A", "A", "", TRUE, <<AddOn("x", TRUE, "d1"), AddOn("y", FALSE, "d2")>>, <<AddOn("y", TRUE, "d3"), AddOn("x", TRUE, "d4")>>, TRUE),
          Disk("", "", "C", FALSE, <<AddOn("x", TRUE, "d1")>>, <<AddOn("x", TRUE, "d2"), AddOn("y", TRUE, "d3"), AddOn("z", TRUE, "d4")>>, TRUE),
          Disk("", "B", "C", FALSE, <<>>, <<>>, FALSE)}

\* playgo-chunk.dat: whole, with tables outside it, empty, and not one.
Chunk(l, i) == [mchunks |-> l, inside |-> i]
ChunkFile(v, n, i, c, s) == [valid |-> v, file_size |-> n, inside |-> i, chunks |-> c, sizes |-> s]
ChunkFiles == {ChunkFile(TRUE, 9, TRUE, <<Chunk(<<1, 2, 9>>, TRUE), Chunk(<<2, 2>>, TRUE), Chunk(<<1>>, FALSE)>>, <<3, 5>>),
               ChunkFile(TRUE, 9, FALSE, <<Chunk(<<1>>, TRUE), Chunk(<<2>>, TRUE)>>, <<3, 5>>),
               ChunkFile(TRUE, 0, TRUE, <<Chunk(<<1>>, TRUE)>>, <<3>>),
               ChunkFile(FALSE, 9, TRUE, <<Chunk(<<1>>, TRUE)>>, <<3>>)}

CaseFolded(c) == IF c = "A" THEN "a" ELSE c

\* Around every rule of the calendar, and both ends of the clock.
Starts == {<<1, 1, 1>>, <<2, 2, 1>>, <<400, 2, 1>>, <<1899, 12, 1>>, <<1900, 2, 1>>, <<1969, 12, 1>>, <<1970, 1, 1>>,
           <<2000, 2, 1>>, <<2100, 2, 1>>, <<9998, 12, 1>>, <<9999, 12, 20>>}
Zones == {-11, 0, 13}

\* Selections and passes whose range lists are unsorted, touching, empty and past the end.
Named(p, v) == [pgm |-> p, v |-> v]
Selections == {<<Named(TRUE, 12), Named(FALSE, 7)>>, <<Named(FALSE, 1), Named(TRUE, 0)>>}
StageCodes == {<<1, 2>>, <<3, 0>>}
PgmOf(c) == 10 + c
ReadLists == {<<>>, <<<<3, 2>>, <<0, 3>>>>, <<<<0, 2>>, <<4, 9>>>>}
ExactLists == {<<>>, <<<<1, 1>>, <<3, 2>>>>, <<<<4, 1>>, <<0, 0>>, <<0, 2>>>>}
MayLists == {<<>>, <<<<2, 3>>>>}

\* Guest memory of four pages, the last one a guard page; passes over it.
HostRegions == <<<<0, 3, TRUE>>, <<3, 6, TRUE>>, <<6, 8, FALSE>>>>
PassReads == {<<<<4, 1>>, <<0, 1>>>>, <<<<1, 4>>>>}
PassBuffers == {<<<<4, 1>>>>}
PassAccesses == {[accessed |-> <<<<5, 2>>>>, written |-> <<<<5, 1>>>>]}
TextureSizes == [t |-> 2, u |-> 1, msaa |-> 1]
Use(t, w) == [tex |-> t, written |-> w]
PassTextures == {<<Use("t", TRUE), Use("u", FALSE)>>, <<Use("msaa", TRUE), Use("u", FALSE)>>}

ManifestStrings == <<<<"x", "quote", "backslash", "u">>, <<"control", "backslash">>>>

\* A service the behaviour is not about starts in one of its initial states.
Init ==
  /\ focus \in Foci
  /\ TrophyInit /\ ModInit /\ DirInit /\ ExInit /\ CapInit
  /\ AppInit    /\ (focus # "app_content" => app_disk = Some(AppDisks))
  /\ PlaygoInit /\ (focus # "playgo" => playgo_file = Some(PlaygoFiles))
  /\ PathsInit  /\ (focus # "paths" => DOMAIN host_tree = {<<>>, <<"a">>})
  /\ RtcInit    /\ (focus # "clock" => rtc_date = Some(RtcStarts))
  /\ SelInit    /\ (focus # "selection" => shaders_ = {})
  /\ MfInit     /\ (focus # "manifest" => mf_regs = [r \in MfRegs |-> 0])

Next ==
  /\ UNCHANGED focus
  /\ IF focus = "trophy" THEN TrophyNext ELSE UNCHANGED trophy_vars
  /\ CASE focus = "modules" -> ModNext [] focus = "loaded_list" -> SysmoduleNext [] OTHER -> UNCHANGED mod_vars
  /\ IF focus = "app_content" THEN AppNext ELSE UNCHANGED app_vars
  /\ IF focus = "playgo" THEN PlaygoNext ELSE UNCHANGED playgo_vars
  /\ IF focus = "paths" THEN PathsNext ELSE UNCHANGED path_vars
  /\ IF focus = "directories" THEN DirNext ELSE UNCHANGED dir_vars
  /\ IF focus = "clock" THEN RtcNext ELSE UNCHANGED rtc_vars
  /\ IF focus = "exceptions" THEN ExNext ELSE UNCHANGED ex_vars
  /\ IF focus = "selection" THEN SelNext ELSE UNCHANGED sel_vars
  /\ IF focus = "capture" THEN CapNext ELSE UNCHANGED cap_vars
  /\ IF focus = "manifest" THEN MfNext ELSE UNCHANGED mf_vars

Spec == Init /\ [][Next]_vars

-----------------------------------------------------------------------------
(* (A service that the behaviour is not about does not move, and its       *)
(* property is not evaluated again.)                                       *)

(* The services: trophies are unlocked in their own context, a module is   *)
(* started once, a guest exception is invisible to the code it interrupts, *)
(* and a directory is listed once and in full.                             *)
ServicesExact ==
  /\ focus = "trophy" => TrophiesOwn
  /\ focus \in {"modules", "loaded_list"} => ModulesOnce
  /\ focus = "exceptions" => ExceptionInvisible
  /\ focus = "directories" => DirListed

(* Files and clocks as the guest sees them: a path names one spelling,     *)
(* add-ons and areas are the title's, chunk sizes those of the file, and   *)
(* dates convert both ways.                                                *)
FilesExact ==
  /\ focus = "paths" => OneSpelling
  /\ focus = "app_content" => AddcontServed /\ AreasOwn
  /\ focus = "playgo" => ProgressOfFile
  /\ focus = "clock" => ClockExact

(* The frame capture: the passes stored are those selected and their       *)
(* producers, each is the pass that ran or says what changed, and what is  *)
(* loaded is what was recorded.                                            *)
CaptureExact ==
  /\ focus = "selection" => ProducersExact
  /\ focus = "capture" => CaptureFaithful
  /\ focus = "manifest" => ManifestLoads

(* What is read or converted is what is there.                             *)
ContentExact == FilesExact /\ CaptureExact
=============================================================================
