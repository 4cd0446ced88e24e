---------------------------- MODULE TitleContent ----------------------------
(***************************************************************************)
(* The running title and its content on disk: the chunks of PlayGo, the    *)
(* additional content and the writable areas.  The two share no state.     *)
(***************************************************************************)
EXTENDS Naturals, Sequences, FiniteSetsExt, Functions, VfsMounts, SequencesExt

-----------------------------------------------------------------------------
(***************************************************************************)
(* libScePlayGo (ps4_playgo.c): the chunks of playgo-chunk.dat, parsed by  *)
(* Initialize and freed by Terminate; everything counts as installed.      *)
(* Nothing takes a lock: one thread calls, and a call is one step.         *)
(***************************************************************************)

CONSTANTS PlaygoFiles,    \* contents of playgo-chunk.dat: see PlaygoInit
          PlaygoInits     \* bound: initializations

ASSUME PlaygoAssumption ==
  /\ PlaygoInits \in Nat
  /\ \A f \in PlaygoFiles : DOMAIN f = {"valid", "file_size", "inside", "chunks", "sizes"}

VARIABLES playgo_file,           \* what is on disk
          g_playgo_initialized, g_playgo_file_size, g_playgo_chunk_count,
          g_playgo_chunks,       \* sizes of the chunks; NULL
          g_playgo_speed, g_playgo_lang_mask,
          playgo_listed,         \* ids GetChunkId gave since the last Initialize
          playgo_answer,         \* of the last GetProgress
          playgo_inits

playgo_vars == <<playgo_file, g_playgo_initialized, g_playgo_file_size, g_playgo_chunk_count, g_playgo_chunks,
                 g_playgo_speed, g_playgo_lang_mask, playgo_listed, playgo_answer, playgo_inits>>
playgo_settings == <<g_playgo_speed, g_playgo_lang_mask>>
playgo_parsed == <<g_playgo_initialized, g_playgo_file_size, g_playgo_chunk_count, g_playgo_chunks>>

NULL == <<>>
NoAnswer == [ids |-> <<>>, total |-> 0, error |-> "none"]

\* A file: its header is valid; file_size of the header; its tables lie inside
\* it; for each chunk its list of mchunk ids, out of bounds when too long; the
\* sizes of the mchunks, numbered from 1.
PlaygoInit ==
  /\ playgo_file \in PlaygoFiles
  /\ g_playgo_initialized = FALSE /\ g_playgo_file_size = 0 /\ g_playgo_chunk_count = 0 /\ g_playgo_chunks = NULL
  /\ g_playgo_speed = 2 /\ g_playgo_lang_mask = "all"
  /\ playgo_listed = {} /\ playgo_answer = NoAnswer /\ playgo_inits = 0

\* Mutant: an mchunk id is not compared with the number of mchunks.
chunk_size_unchecked(list) ==
  FoldFunction(+, 0, [j \in DOMAIN list |-> IF list[j] \in DOMAIN playgo_file.sizes THEN playgo_file.sizes[list[j]] ELSE 1])
\* Total size of the mchunks of a chunk; ids outside the table are skipped.
chunk_size(list) ==
  FoldFunction(+, 0, [j \in DOMAIN list |-> IF list[j] \in DOMAIN playgo_file.sizes THEN playgo_file.sizes[list[j]] ELSE 0])

Parsed ==
  [c \in DOMAIN playgo_file.chunks |->
     IF playgo_file.inside /\ playgo_file.chunks[c].inside THEN chunk_size(playgo_file.chunks[c].mchunks) ELSE 0]

scePlayGoInitialize ==
  /\ ~g_playgo_initialized /\ playgo_inits < PlaygoInits
  /\ g_playgo_initialized' = TRUE /\ playgo_inits' = playgo_inits + 1
  /\ LET good == playgo_file.valid /\ playgo_file.chunks # <<>>
     IN  /\ g_playgo_file_size' = IF good THEN playgo_file.file_size ELSE 0
         /\ g_playgo_chunk_count' = IF good THEN Len(playgo_file.chunks) ELSE 0
         /\ g_playgo_chunks' = IF good THEN Parsed ELSE NULL
  /\ g_playgo_speed' = 2 /\ g_playgo_lang_mask' = "all"
  /\ playgo_listed' = {} /\ UNCHANGED <<playgo_file, playgo_answer>>

scePlayGoTerminate ==
  /\ g_playgo_initialized
  /\ g_playgo_initialized' = FALSE /\ g_playgo_chunks' = NULL /\ g_playgo_chunk_count' = 0 /\ g_playgo_file_size' = 0
  /\ playgo_listed' = {} /\ UNCHANGED <<playgo_file, playgo_settings, playgo_answer, playgo_inits>>

\* Mutant: the caller's room is filled.
chunk_ids_all(room) == 0..room - 1
\* The ids GetChunkId writes into room entries; without a list, only their number.
chunk_ids(room) == 0..Min({room, g_playgo_chunk_count}) - 1
scePlayGoGetChunkId(room) ==
  /\ g_playgo_initialized /\ g_playgo_file_size # 0
  /\ playgo_listed' = playgo_listed \cup chunk_ids(room)
  /\ UNCHANGED <<playgo_file, playgo_parsed, playgo_settings, playgo_answer, playgo_inits>>

\* Refused when an id is not a chunk of the file, or there is no file.
scePlayGoGetProgress(ids) ==
  /\ g_playgo_initialized
  /\ playgo_answer' =
       IF g_playgo_file_size = 0 \/ \E i \in DOMAIN ids : ids[i] >= g_playgo_chunk_count
       THEN [ids |-> ids, total |-> 0, error |-> "BAD_CHUNK_ID"]
       ELSE [ids |-> ids, total |-> FoldFunction(+, 0, [i \in DOMAIN ids |-> g_playgo_chunks[ids[i] + 1]]), error |-> "none"]
  /\ UNCHANGED <<playgo_file, playgo_parsed, playgo_settings, playgo_listed, playgo_inits>>

\* GetLocus accepts the ids GetProgress accepts.
scePlayGoGetLocus(id) == g_playgo_initialized /\ g_playgo_file_size # 0 /\ id < g_playgo_chunk_count

scePlayGoSetInstallSpeed(speed) ==
  /\ g_playgo_initialized /\ speed \in 0..2 /\ g_playgo_speed' = speed
  /\ UNCHANGED <<playgo_file, playgo_parsed, g_playgo_lang_mask, playgo_listed, playgo_answer, playgo_inits>>
scePlayGoSetLanguageMask ==
  /\ g_playgo_initialized /\ g_playgo_lang_mask' = "some"
  /\ UNCHANGED <<playgo_file, playgo_parsed, g_playgo_speed, playgo_listed, playgo_answer, playgo_inits>>

PlaygoNext ==
  \/ scePlayGoInitialize \/ scePlayGoTerminate \/ scePlayGoSetLanguageMask
  \/ \E room \in 1..3 : scePlayGoGetChunkId(room)
  \/ \E a, b \in 0..2 : scePlayGoGetProgress(<<a, b>>)
  \/ \E speed \in {0, 2} : scePlayGoSetInstallSpeed(speed)

-----------------------------------------------------------------------------
\* A chunk that GetChunkId listed is known to GetLocus until Terminate, and a
\* progress that was answered adds up the mchunks of the file the ids name, an
\* id asked twice counted twice; it is refused only for an id that was not listed.
ProgressOfFile ==
  /\ \A id \in playgo_listed : scePlayGoGetLocus(id)
  /\ (playgo_answer.error = "none" /\ playgo_answer.ids # <<>>) =>
       playgo_answer.total =
         FoldFunction(+, 0, [i \in DOMAIN playgo_answer.ids |->
           LET chunk == playgo_file.chunks[playgo_answer.ids[i] + 1]
               real  == {j \in DOMAIN chunk.mchunks : chunk.mchunks[j] \in DOMAIN playgo_file.sizes}
           IN  IF playgo_file.inside /\ chunk.inside
               THEN FoldFunctionOnSet(+, 0, [j \in real |-> playgo_file.sizes[chunk.mchunks[j]]], real) ELSE 0])
  /\ (playgo_answer.error = "BAD_CHUNK_ID" /\ g_playgo_initialized) => \E i \in DOMAIN playgo_answer.ids : playgo_answer.ids[i] \notin playgo_listed

-----------------------------------------------------------------------------
(***************************************************************************)
(* libSceAppContent (ps4_app_content.c): which title is running, the       *)
(* writable areas /temp0 and /download0, and the additional content found  *)
(* on disk, mounted through the file system's mount table.  Nothing here   *)
(* takes a lock: one thread calls, one call is one step.                   *)
(***************************************************************************)

CONSTANTS AppDisks,   \* what the host's disk holds: see AppInit
          ORBIS_APP_CONTENT_INFO_LIST_MAX_SIZE,
          AppMounts   \* bound: calls that mount

ASSUME AppAssumption ==
  /\ ORBIS_APP_CONTENT_INFO_LIST_MAX_SIZE \in Nat /\ AppMounts \in Nat
  /\ \A disk \in AppDisks : DOMAIN disk = {"title", "content", "txt", "param", "app", "shared", "writable"}

VARIABLES app_disk, s_initialized,
          g_title_id, g_content_id,  \* "" until known
          g_addcont,                 \* entries [label, dir], in the order of the scan
          temp_files,                \* directory -> kinds of entries in it
          app_points,                \* mount points handed out and not given back: [point, label]
          app_clean,                 \* /temp0 was formatted and not written since
          app_answer,                \* USER_DEFINED_PARAM_1 as last answered, or -1
          app_mounts

app_vars == <<app_disk, s_initialized, g_title_id, g_content_id, g_addcont, temp_files, app_points, app_clean, app_answer, app_mounts, g_mounts>>

\* A disk: param.sfo's TITLE_ID and CONTENT_ID ("" when absent) and whether it
\* has USER_DEFINED_PARAM_1; contentid.txt's title; the directories below
\* app0/addcont and below ../addcont/<title>: [label, addcont, dir], addcont
\* when a readable param.sfo has category "ac" and a long enough CONTENT_ID;
\* whether the data directory can be written.
AppInit ==
  /\ app_disk \in AppDisks /\ s_initialized = FALSE
  /\ g_title_id = "" /\ g_content_id = "" /\ g_addcont = <<>>
  /\ temp_files = [d \in {} |-> {}] /\ app_points = {} /\ app_clean = FALSE /\ app_answer = 0 - 1 /\ app_mounts = 0
  /\ ps4_vfs_init

temp0 == <<"temp0", 0>>
download0 == <<"download0", 0>>

\* Host directory of a writable area for a title; /tmp when it cannot be made.
ensure_dir(area, title) ==
  IF app_disk.writable THEN <<area, IF title = "" THEN "CUSA00000" ELSE title>> ELSE <<area, "tmp">>
ensure_temp_dir == ensure_dir("temp0", g_title_id)

\* What a directory of additional content adds to the list, up to its size.
scan_addcont_directory(list, found) ==
  LET added == [i \in DOMAIN SelectSeq(found, LAMBDA e : e.addcont) |->
                  LET e == SelectSeq(found, LAMBDA x : x.addcont)[i] IN [label |-> e.label, dir |-> e.dir]]
      all   == list \o added
  IN  SubSeq(all, 1, Min({Len(all), ORBIS_APP_CONTENT_INFO_LIST_MAX_SIZE}))

\* contentid.txt is read only when param.sfo has no CONTENT_ID.
ContentId == IF app_disk.content # "" THEN app_disk.content ELSE app_disk.txt
TitleId ==
  LET sfo == IF app_disk.title # "" THEN app_disk.title ELSE g_title_id
      txt == IF app_disk.content = "" /\ app_disk.txt # "" THEN app_disk.txt ELSE sfo
  IN  IF txt = "" THEN "CUSA00000" ELSE txt

\* The mount table after mounting host directories on prefixes, in order.
MountAll(pairs) ==
  FoldLeft(LAMBDA table, p :
             LET at == {i \in DOMAIN table : table[i].active /\ table[i].prefix = p[1]}
             IN  IF at # {} THEN [table EXCEPT ![Min(at)].host = p[2]]
                 ELSE IF Len(table) >= MAX_VFS_MOUNTS THEN table
                 ELSE Append(table, [prefix |-> p[1], host |-> p[2], active |-> TRUE]),
           g_mounts, pairs)

\* Mutant: the writable areas are mounted before the title is looked up.
initialize_mounts_first ==
  /\ ~s_initialized /\ s_initialized' = TRUE
  /\ g_title_id' = TitleId /\ g_content_id' = ContentId
  /\ g_mounts' = MountAll(<< <<temp0, ensure_temp_dir>>, <<download0, ensure_dir("download0", g_title_id)>> >>)
  /\ app_clean' = FALSE /\ g_addcont' = scan_addcont_directory(scan_addcont_directory(<<>>, app_disk.app), app_disk.shared)
  /\ UNCHANGED <<app_disk, temp_files, app_points, app_answer, app_mounts>>
sceAppContentInitialize ==
  /\ ~s_initialized /\ s_initialized' = TRUE
  /\ g_title_id' = TitleId /\ g_content_id' = ContentId
  /\ g_mounts' = MountAll(<< <<temp0, ensure_dir("temp0", TitleId)>>, <<download0, ensure_dir("download0", TitleId)>> >>)
  /\ app_clean' = FALSE /\ g_addcont' = scan_addcont_directory(scan_addcont_directory(<<>>, app_disk.app), app_disk.shared)
  /\ UNCHANGED <<app_disk, temp_files, app_points, app_answer, app_mounts>>

\* The param.sfo is read by Initialize; without the key, the digits of a title.
user_defined_param ==
  IF s_initialized /\ app_disk.param THEN 1
  ELSE IF g_title_id \notin {"", "CUSA00000"} THEN 2 ELSE 0
sceAppContentAppParamGetInt ==
  /\ app_answer' = user_defined_param
  /\ UNCHANGED <<app_disk, s_initialized, g_title_id, g_content_id, g_addcont, temp_files, app_points, app_clean, app_mounts, g_mounts>>

Files(dir) == IF dir \in DOMAIN temp_files THEN temp_files[dir] ELSE {}
WithFiles(dir, kinds) == [d \in DOMAIN temp_files \cup {dir} |-> IF d = dir THEN kinds ELSE temp_files[d]]

\* Formatting unlinks every entry: a subdirectory cannot be unlinked.
sceAppContentTemporaryDataFormat(dir) == WithFiles(dir, Files(dir) \ {"file"})

sceAppContentTemporaryDataMount2(format) ==
  /\ app_mounts < AppMounts /\ app_mounts' = app_mounts + 1
  /\ ps4_vfs_mount(temp0, ensure_temp_dir)
  /\ temp_files' = IF format THEN sceAppContentTemporaryDataFormat(ensure_temp_dir) ELSE temp_files
  /\ app_clean' = (format \/ app_clean)
  /\ UNCHANGED <<app_disk, s_initialized, g_title_id, g_content_id, g_addcont, app_points, app_answer>>

\* The game creates a file or a directory under /temp0.
write_temp(kind) ==
  /\ Mounted(temp0) /\ app_clean' = FALSE
  /\ temp_files' = WithFiles(ps4_vfs_resolve(temp0), Files(ps4_vfs_resolve(temp0)) \cup {kind})
  /\ UNCHANGED <<app_disk, s_initialized, g_title_id, g_content_id, g_addcont, app_points, app_answer, app_mounts, g_mounts>>

sceAppContentDownloadDataGetAvailableSpaceKb ==
  /\ app_mounts < AppMounts /\ app_mounts' = app_mounts + 1
  /\ ps4_vfs_mount(download0, ensure_dir("download0", g_title_id))
  /\ UNCHANGED <<app_disk, s_initialized, g_title_id, g_content_id, g_addcont, temp_files, app_points, app_clean, app_answer>>

\* Entries with a label; the calls answer with the first.
Entries(label) == {i \in DOMAIN g_addcont : g_addcont[i].label = label}
sceAppContentGetAddcontInfo(label) == Entries(label) # {}
sceAppContentGetAddcontInfoList(n) == SubSeq(g_addcont, 1, IF n = 0 THEN Len(g_addcont) ELSE Min({n, Len(g_addcont)}))

\* Mutant: every label is mounted on the same point.
mount_by_label(label) ==
  /\ app_mounts < AppMounts /\ app_mounts' = app_mounts + 1 /\ Entries(label) # {}
  /\ LET i == Min(Entries(label))
     IN  /\ ps4_vfs_mount(<<"addcont", 0>>, g_addcont[i].dir)
         /\ app_points' = app_points \cup {[point |-> <<"addcont", 0>>, label |-> label]}
  /\ UNCHANGED <<app_disk, s_initialized, g_title_id, g_content_id, g_addcont, temp_files, app_clean, app_answer>>
sceAppContentAddcontMount(label) ==
  /\ app_mounts < AppMounts /\ app_mounts' = app_mounts + 1 /\ Entries(label) # {}
  /\ LET i == Min(Entries(label))
     IN  /\ ps4_vfs_mount(<<"addcont", i>>, g_addcont[i].dir)
         /\ app_points' = app_points \cup {[point |-> <<"addcont", i>>, label |-> label]}
  /\ UNCHANGED <<app_disk, s_initialized, g_title_id, g_content_id, g_addcont, temp_files, app_clean, app_answer>>

sceAppContentAddcontUnmount(p) ==
  /\ p \in app_points
  /\ ps4_vfs_unmount({p.point}) /\ app_points' = {q \in app_points : q.point # p.point}
  /\ UNCHANGED <<app_disk, s_initialized, g_title_id, g_content_id, g_addcont, temp_files, app_clean, app_answer, app_mounts>>

AppLabels == UNION {{disk.app[i].label : i \in DOMAIN disk.app} \cup {disk.shared[i].label : i \in DOMAIN disk.shared} : disk \in AppDisks}
AreaCalls ==
  \/ sceAppContentInitialize \/ sceAppContentAppParamGetInt \/ sceAppContentDownloadDataGetAvailableSpaceKb
  \/ \E format \in BOOLEAN : sceAppContentTemporaryDataMount2(format)
AddcontCalls ==
  \/ \E label \in AppLabels : sceAppContentAddcontMount(label)
  \/ \E p \in app_points : sceAppContentAddcontUnmount(p)
AppNext == AreaCalls \/ AddcontCalls \/ \E kind \in {"file", "directory"} : write_temp(kind)

-----------------------------------------------------------------------------
\* Every mount point the game holds leads to the first directory found with its
\* content's label, app0's before the shared one's, whatever was mounted or
\* unmounted since; two labels never share a point; the list of n entries is
\* what the lookups by label accept.
AddcontServed ==
  /\ \A p \in app_points :
       \E i \in DOMAIN (app_disk.app \o app_disk.shared) :
         LET all == app_disk.app \o app_disk.shared
         IN  /\ all[i].label = p.label /\ all[i].addcont /\ ps4_vfs_resolve(p.point) = all[i].dir
             /\ \A j \in 1..i - 1 : ~(all[j].addcont /\ all[j].label = p.label)
  /\ \A p, q \in app_points : p.point = q.point => p = q
  /\ \A n \in 0..ORBIS_APP_CONTENT_INFO_LIST_MAX_SIZE :
       LET list == sceAppContentGetAddcontInfoList(n)
       IN  \A label \in AppLabels : (\E i \in DOMAIN list : list[i].label = label) => sceAppContentGetAddcontInfo(label)
\* Once the library is initialized the writable areas are the running title's
\* own directories, and after a format /temp0 holds no file.
AreasOwn ==
  /\ s_initialized => /\ ps4_vfs_resolve(temp0) = ensure_dir("temp0", g_title_id)
                      /\ ps4_vfs_resolve(download0) = ensure_dir("download0", g_title_id)
  /\ app_clean => "file" \notin Files(ps4_vfs_resolve(temp0))
  /\ s_initialized /\ app_disk.title # "" => user_defined_param # 0
=============================================================================
