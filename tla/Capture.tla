------------------------------ MODULE Capture -------------------------------
(***************************************************************************)
(* The frame capture of the renderer (ps4_gnm_capture.cpp) in three parts: *)
(* which passes are stored, what is stored of them, and the manifest.      *)
(***************************************************************************)
EXTENDS Integers, SequencesExt

-----------------------------------------------------------------------------
(***************************************************************************)
(* ps4_gnm_capture.cpp, ShaderSelection: which passes of a captured frame  *)
(* are stored for replay.  The frame before is a learning frame: each pass *)
(* tells what it read, wrote exactly and may have written, and walking     *)
(* back from every pass with a selected shader gives its producers.  In    *)
(* the captured frame passes are matched by key: shader code and           *)
(* occurrence.                                                             *)
(***************************************************************************)

CONSTANTS SelTop,     \* UINT64_MAX: an interval that would pass it ends here
          SelLists,   \* the entry lists asked for: sequences of [pgm, v]
          SelCodes,   \* the pairs of stage code addresses of passes, 0: no stage
          SelPgm(_),  \* the program hash of the code at an address
          SelReads, SelExact, SelMay, \* range lists of passes: sequences of <<addr, size>>
          SelPasses   \* bound: passes of a frame
ASSUME SelAssumption == SelTop \in Nat /\ SelPasses \in Nat

VARIABLES shaders_, pgms_, counts_, learned_, producers_, known_, readers_,
          sel_phase,  \* "learning", then "captured"
          sel_frame,  \* history: the passes of the learning frame, with the bytes they touch
          sel_picked  \* history: the captured frame's passes: [code, selects, known]

sel_vars == <<shaders_, pgms_, counts_, learned_, producers_, known_, readers_, sel_phase, sel_frame, sel_picked>>

\* One entry that is not a non-zero number refuses the whole list.
Parse(list) ==
  LET vals(p) == {list[i].v : i \in {k \in DOMAIN list : list[k].pgm = p}}
  IN  IF list = <<>> \/ \E i \in DOMAIN list : list[i].v = 0 THEN [shaders |-> {}, pgms |-> {}]
      ELSE [shaders |-> vals(FALSE), pgms |-> vals(TRUE)]

\* An interval joins the last one of a sorted list when it touches it.
Join(out, p) ==
  IF out # <<>> /\ p[1] <= Last(out)[2]
  THEN [out EXCEPT ![Len(out)] = <<@[1], IF p[2] > @[2] THEN p[2] ELSE @[2]>>]
  ELSE Append(out, p)
Sorted(s) == SortSeq(s, LAMBDA p, q : p[1] < q[1] \/ (p[1] = q[1] /\ p[2] < q[2]))
MergeIntervals(in) ==
  LET kept == SelectSeq(in, LAMBDA r : r[2] > 0)
      ends == [i \in DOMAIN kept |-> <<kept[i][1], IF kept[i][1] + kept[i][2] > SelTop THEN SelTop ELSE kept[i][1] + kept[i][2]>>]
  IN  FoldLeft(Join, <<>>, Sorted(ends))

\* Two pointers over sorted, merged intervals.
Overlaps(a, b) ==
  LET o[i \in 1..Len(a) + 1, j \in 1..Len(b) + 1] ==
        CASE i > Len(a) \/ j > Len(b) -> FALSE
          [] i <= Len(a) /\ j <= Len(b) /\ a[i][2] <= b[j][1] -> o[i + 1, j]
          [] i <= Len(a) /\ j <= Len(b) /\ a[i][2] > b[j][1] /\ b[j][2] <= a[i][1] -> o[i, j + 1]
          [] OTHER -> TRUE
  IN  o[1, 1]

\* What the intervals w from the k-th leave of lo..hi.
Cuts(w, first, from, hi) ==
  LET c[k \in 1..Len(w) + 1, lo \in 0..SelTop] ==
        IF k > Len(w) \/ (k <= Len(w) /\ w[k][1] >= hi) \/ lo >= hi THEN IF lo < hi THEN <<<<lo, hi>>>> ELSE <<>>
        ELSE (IF w[k][1] > lo THEN <<<<lo, w[k][1]>>>> ELSE <<>>) \o c[k + 1, IF w[k][2] > lo THEN w[k][2] ELSE lo]
  IN  c[first, from]
\* Mutant: an interval that began before this one is skipped for good.
subtract_past(rest, w) ==
  LET one(s, r) ==
        LET j == CHOOSE k \in s.j..Len(w) + 1 : (k > Len(w) \/ w[k][1] >= r[1]) /\ \A i \in s.j..k - 1 : w[i][1] < r[1]
        IN  [j |-> j, rest |-> s.rest \o Cuts(w, j, r[1], r[2]), hit |-> s.hit \/ (j <= Len(w) /\ w[j][1] < r[2])]
  IN  FoldLeft(one, [j |-> 1, rest |-> <<>>, hit |-> FALSE], rest)
Subtract(rest, w) ==
  LET one(s, r) ==
        LET j == CHOOSE k \in s.j..Len(w) + 1 : (k > Len(w) \/ w[k][2] > r[1]) /\ \A i \in s.j..k - 1 : w[i][2] <= r[1]
        IN  [j |-> j, rest |-> s.rest \o Cuts(w, j, r[1], r[2]), hit |-> s.hit \/ (j <= Len(w) /\ w[j][1] < r[2])]
  IN  FoldLeft(one, [j |-> 1, rest |-> <<>>, hit |-> FALSE], rest)

SelInit ==
  /\ \E list \in SelLists : shaders_ = Parse(list).shaders /\ pgms_ = Parse(list).pgms
  /\ counts_ = [c \in SelCodes |-> 0] /\ learned_ = <<>> /\ producers_ = {} /\ known_ = {} /\ readers_ = 0
  /\ sel_phase = "learning" /\ sel_frame = <<>> /\ sel_picked = <<>>

UsesShader(code) == \E i \in 1..2 : code[i] # 0 /\ (code[i] \in shaders_ \/ SelPgm(code[i]) \in pgms_)
\* KeyPass, Next: the key of the next pass of the frame.
Key(code) == [code |-> code, occurrence |-> counts_[code]]
Counted(code) == counts_' = [counts_ EXCEPT ![code] = @ + 1]

\* A pass of the learning frame.
Bytes(list) == {b \in 0..SelTop - 1 : \E i \in DOMAIN list : b >= list[i][1] /\ b < list[i][1] + list[i][2]}
Learn(code, reads, exact, may) ==
  /\ sel_phase = "learning" /\ Len(sel_frame) < SelPasses /\ Counted(code)
  /\ known_' = known_ \union {Key(code)}
  /\ LET l == [key |-> Key(code), reader |-> UsesShader(code), reads |-> IF UsesShader(code) THEN MergeIntervals(reads) ELSE <<>>,
               exact |-> MergeIntervals(exact), may |-> MergeIntervals(may)]
     IN  learned_' = IF l.reader \/ l.exact # <<>> \/ l.may # <<>> THEN Append(learned_, l) ELSE learned_
  /\ sel_frame' = Append(sel_frame, [key |-> Key(code), code |-> code, reads |-> Bytes(reads), exact |-> Bytes(exact), may |-> Bytes(may)])
  /\ UNCHANGED <<shaders_, pgms_, producers_, readers_, sel_phase, sel_picked>>

\* Walking back from reader i: who wrote bytes that no later pass wrote exactly.
ProducersOf(i) ==
  LET step(s, l) ==
        IF s.rest = <<>> THEN s
        ELSE LET cut == Subtract(s.rest, l.exact)
             IN  [rest |-> cut.rest, keys |-> IF cut.hit \/ Overlaps(s.rest, l.may) THEN s.keys \union {l.key} ELSE s.keys]
  IN  FoldLeft(step, [rest |-> learned_[i].reads, keys |-> {}], Reverse(SubSeq(learned_, 1, i - 1))).keys
\* The learning frame presents: FinishLearning, then BeginFrame.
FinishLearning ==
  /\ sel_phase = "learning" /\ sel_phase' = "captured" /\ (shaders_ \union pgms_) # {}
  /\ LET r == {i \in DOMAIN learned_ : learned_[i].reader}
     IN  producers_' = UNION {ProducersOf(i) : i \in r} /\ readers_' = Cardinality(r)
  /\ learned_' = <<>> /\ counts_' = [c \in SelCodes |-> 0]
  /\ UNCHANGED <<shaders_, pgms_, known_, sel_frame, sel_picked>>

\* A pass of the captured frame, KeyPass.
Selects(k) == UsesShader(k.code) \/ k \in producers_
KeyPass(code) ==
  /\ sel_phase = "captured" /\ Len(sel_picked) < SelPasses /\ Counted(code)
  /\ sel_picked' = Append(sel_picked, [code |-> code, selects |-> Selects(Key(code)), known |-> Key(code) \in known_])
  /\ UNCHANGED <<shaders_, pgms_, learned_, producers_, known_, readers_, sel_phase, sel_frame>>

SelNext ==
  \/ /\ (shaders_ \union pgms_) # {}
     /\ \E code \in SelCodes, exact \in SelExact, may \in SelMay :
          \E reads \in IF UsesShader(code) THEN SelReads ELSE {<<>>} : Learn(code, reads, exact, may)
  \/ FinishLearning
  \/ \E code \in SelCodes : KeyPass(code)

-----------------------------------------------------------------------------
\* ps4_gnm_capture.h: the captured frame's passes chosen for replay are those
\* with a selected shader and those whose key is of a pass that wrote, exactly
\* or possibly, a byte a later reader of the learning frame read and no pass
\* between them wrote exactly, whatever lists the ranges came in.
ProducersExact ==
  LET reader(p) == UsesShader(p.code)
      producer(j) == \E i \in j + 1..Len(sel_frame) :
                       /\ reader(sel_frame[i])
                       /\ \E b \in sel_frame[i].reads \intersect (sel_frame[j].exact \union sel_frame[j].may) :
                            \A k \in j + 1..i - 1 : b \notin sel_frame[k].exact
      nth(i) == Cardinality({k \in 1..i - 1 : sel_picked[k].code = sel_picked[i].code})
      same(i, j) == sel_frame[j].code = sel_picked[i].code
                      /\ Cardinality({k \in 1..j - 1 : sel_frame[k].code = sel_picked[i].code}) = nth(i)
  IN  \A i \in DOMAIN sel_picked :
        /\ sel_picked[i].selects <=> reader(sel_picked[i]) \/ \E j \in DOMAIN sel_frame : same(i, j) /\ producer(j)
        /\ sel_picked[i].known <=> \E j \in DOMAIN sel_frame : same(i, j)

-----------------------------------------------------------------------------
(***************************************************************************)
(* ps4_gnm_capture.cpp, Writer, and the passes of ps4_gnm_draw.mm that use *)
(* it: a replayable pass stores the guest pages it reads, its textures     *)
(* before and after, the ranges it wrote, and which inputs changed while   *)
(* it ran.  Guest threads and other GPU work write meanwhile, and files    *)
(* may fail to be written.  A hash stands for its contents (no collision), *)
(* and what is written anew differs from everything before it.            *)
(***************************************************************************)

CONSTANTS kPage, CapMem,           \* page and guest memory size
          kMaxSnapshot,            \* larger ranges are recorded, not stored
          CapRegions,              \* the host's regions: sequence of <<lo, hi, readable>>
          CapReads, CapBuffers, CapAccess, \* range lists of passes
          CapSizes,                \* texture -> bytes of its raw contents
          CapUnreadable,           \* textures ReadForPass cannot read (msaa, format)
          CapUses,                 \* texture lists of passes: sequences of [tex, written]
          CapGuest,                \* addresses guest threads write
          CapLimit,                \* RawBudget.limit
          CapPasses, CapWrites, CapFails   \* bounds
ASSUME CapAssumption == kPage \in Nat \ {0} /\ CapMem \in Nat /\ CapPasses \in Nat /\ CapWrites \in Nat /\ CapFails \in Nat

VARIABLES cap_mem, cap_tex, cap_clock, \* guest memory, texture contents, a fresh value
          blobs_,                      \* what the writer remembers: keys (address, size, contents) with a file
          cap_disk,                    \* the files that were written: names
          failures_, cap_used, cap_pass, cap_manifest, cap_writes

cap_vars == <<cap_mem, cap_tex, cap_clock, blobs_, cap_disk, failures_, cap_used, cap_pass, cap_manifest, cap_writes>>
CapNone == [step |-> "none"]
NoFile == <<"no file">>
Textures == DOMAIN CapSizes

CapInit ==
  /\ cap_mem = [a \in 0..CapMem - 1 |-> 0] /\ cap_tex = [t \in Textures |-> 0] /\ cap_clock = 0
  /\ blobs_ = {} /\ cap_disk = {} /\ failures_ = 0 /\ cap_used = 0
  /\ cap_pass = CapNone /\ cap_manifest = <<>> /\ cap_writes = 0

LowerOf(a, b) == IF a < b THEN a ELSE b
HigherOf(a, b) == IF a > b THEN a ELSE b
\* The pages that cover the ranges, sorted, merged and cut at the end of memory.
CoalescePages(r) ==
  LET kept == SelectSeq(r, LAMBDA x : x[2] # 0 /\ x[1] # 0 /\ x[1] < CapMem)
      pages == [i \in DOMAIN kept |-> <<(kept[i][1] \div kPage) * kPage,
                                        LowerOf(CapMem, ((kept[i][1] + kept[i][2] + kPage - 1) \div kPage) * kPage)>>]
      join(out, p) == IF out # <<>> /\ p[1] <= Last(out)[2] THEN [out EXCEPT ![Len(out)][2] = HigherOf(@, p[2])] ELSE Append(out, p)
      all == FoldLeft(join, <<>>, SortSeq(pages, LAMBDA p, q : p[1] < q[1] \/ (p[1] = q[1] /\ p[2] < q[2])))
  IN  [i \in DOMAIN all |-> <<all[i][1], all[i][2] - all[i][1]>>]
\* The readable parts, region by region; readable neighbours are one range.
ClampReadable(ranges) ==
  LET part(x, g) == <<HigherOf(x[1], g[1]), LowerOf(x[1] + x[2], g[2])>>
      add(out, p) == IF p[1] >= p[2] THEN out
                     ELSE IF out # <<>> /\ Last(out)[1] + Last(out)[2] = p[1] THEN [out EXCEPT ![Len(out)][2] = @ + (p[2] - p[1])]
                     ELSE Append(out, <<p[1], p[2] - p[1]>>)
      readable == SelectSeq(CapRegions, LAMBDA g : g[3])
      parts(x) == [i \in DOMAIN readable |-> part(x, readable[i])]
  IN  FoldLeft(LAMBDA out, x : FoldLeft(add, out, parts(x)), <<>>, ranges)

Contents(a, n) == [b \in a..a + n - 1 |-> cap_mem[b]]
Holds(ref, b) == b >= ref.addr /\ b < ref.addr + ref.size
\* Mutant: a file is remembered before it is written.
snapshot_remembers(s, r, fails) ==
  LET key == <<"blob", r[1], r[2], Contents(r[1], r[2])>>
      ref(f) == [addr |-> r[1], size |-> r[2], hash |-> key[4], file |-> f]
  IN  CASE r[2] > kMaxSnapshot -> [s EXCEPT !.refs = Append(@, [ref(NoFile) EXCEPT !.hash = <<>>])]
        [] r[2] <= kMaxSnapshot /\ key \in s.blobs -> [s EXCEPT !.refs = Append(@, ref(key))]
        [] r[2] <= kMaxSnapshot /\ key \notin s.blobs /\ fails -> [s EXCEPT !.refs = Append(@, ref(NoFile)), !.failed = @ + 1, !.blobs = @ \union {key}]
        [] OTHER -> [s EXCEPT !.refs = Append(@, ref(key)), !.blobs = @ \union {key}, !.disk = @ \union {key}]
\* Guest bytes are stored once per address, size and contents; s is the writer.
Snapshot(s, r, fails) ==
  LET key == <<"blob", r[1], r[2], Contents(r[1], r[2])>>
      ref(f) == [addr |-> r[1], size |-> r[2], hash |-> key[4], file |-> f]
  IN  CASE r[2] > kMaxSnapshot -> [s EXCEPT !.refs = Append(@, [ref(NoFile) EXCEPT !.hash = <<>>])]
        [] r[2] <= kMaxSnapshot /\ key \in s.blobs -> [s EXCEPT !.refs = Append(@, ref(key))]
        [] r[2] <= kMaxSnapshot /\ key \notin s.blobs /\ fails -> [s EXCEPT !.refs = Append(@, ref(NoFile)), !.failed = @ + 1]
        [] OTHER -> [s EXCEPT !.refs = Append(@, ref(key)), !.blobs = @ \union {key}, !.disk = @ \union {key}]
Snapshots(w, ranges, fails) ==
  FoldLeft(LAMBDA s, i : Snapshot(s, ranges[i], i \in fails), w, [i \in DOMAIN ranges |-> i])
Writer == [blobs |-> blobs_, disk |-> cap_disk, failed |-> failures_, used |-> cap_used, refs |-> <<>>]
\* The files that fail this time: none, or one while CapFails allows it.
Failing == {{}} \union IF failures_ < CapFails THEN {{1}, {2}} ELSE {}
Wrote(s) == blobs_' = s.blobs /\ cap_disk' = s.disk /\ failures_' = s.failed /\ cap_used' = s.used

Fits(s, n) == n <= CapLimit /\ s.used <= CapLimit - n
\* SaveTexture: a file per pass, texture and moment.
TextureFile(rec, when) == <<when, cap_pass.index, rec.tex, cap_tex[rec.tex]>>
\* SavePre, SavePost: within the budget; a failed write uses nothing of it.
SaveRaw(s, rec, field, when, fails) ==
  LET name == TextureFile(rec, when)
      n == CapSizes[rec.tex]
  IN  IF ~Fits(s, n) THEN [s EXCEPT !.refs = Append(@, [rec EXCEPT !.readback = "budget"])]
      ELSE IF fails THEN [s EXCEPT !.refs = Append(@, rec), !.failed = @ + 1]
      ELSE [s EXCEPT !.refs = Append(@, [rec EXCEPT ![field] = name]), !.disk = @ \union {name}, !.used = @ + n]

\* A pass begins; AddTexture stores the contents before it, SavePre.
begin_pass(replayable, reads, buffers) ==
  /\ cap_pass.step = "none" /\ Len(cap_manifest) < CapPasses
  /\ cap_pass' = [step |-> "textures", index |-> Len(cap_manifest), replayable |-> replayable, taken |-> FALSE, reads |-> reads, accessed |-> <<>>,
                  buffers |-> buffers, guest_written |-> <<>>, inputs |-> <<>>, textures |-> <<>>, ran |-> <<>>, saw |-> <<>>, left |-> <<>>, quiet |-> TRUE]
  /\ UNCHANGED <<cap_mem, cap_tex, cap_clock, blobs_, cap_disk, failures_, cap_used, cap_manifest, cap_writes>>
AddTextures(uses, fails) ==
  LET rec(i) == [tex |-> uses[i].tex, written |-> uses[i].written, pre |-> NoFile, post |-> NoFile,
                 readback |-> IF uses[i].tex \in CapUnreadable THEN "unreadable" ELSE "ok"]
      add(s, i) == IF ~cap_pass.replayable \/ (rec(i).readback # "ok" /\ Fits(s, CapSizes[uses[i].tex]))
                   THEN [s EXCEPT !.refs = Append(@, [rec(i) EXCEPT !.readback = IF cap_pass.replayable THEN @ ELSE "ok"])]
                   ELSE SaveRaw(s, rec(i), "pre", "pre", i \in fails)
      done == FoldLeft(add, Writer, [i \in DOMAIN uses |-> i])
  IN  /\ cap_pass.step = "textures" /\ cap_pass' = [cap_pass EXCEPT !.step = "open", !.textures = done.refs]
      /\ Wrote(done) /\ UNCHANGED <<cap_mem, cap_tex, cap_clock, cap_manifest, cap_writes>>

\* A guest memory dispatch stores its inputs after its probe, before it runs.
NoteGuestMemory(accessed, written, fails) ==
  LET s == Snapshots(Writer, ClampReadable(CoalescePages(cap_pass.reads \o accessed)), fails)
  IN  /\ cap_pass.step = "open" /\ ~cap_pass.taken /\ cap_pass.accessed = <<>>
      /\ cap_pass' = [cap_pass EXCEPT !.taken = cap_pass.replayable, !.accessed = accessed, !.guest_written = written,
                                      !.inputs = IF cap_pass.replayable THEN s.refs ELSE @]
      /\ IF cap_pass.replayable THEN Wrote(s) ELSE UNCHANGED <<blobs_, cap_disk, failures_, cap_used>>
      /\ UNCHANGED <<cap_mem, cap_tex, cap_clock, cap_manifest, cap_writes>>
\* Finish: the inputs, before the GPU runs the pass ...
store_inputs(fails) ==
  LET s == Snapshots(Writer, ClampReadable(CoalescePages(cap_pass.reads)), fails)
      take == cap_pass.replayable /\ ~cap_pass.taken
  IN  /\ cap_pass.step = "open" /\ cap_pass' = [cap_pass EXCEPT !.step = "committed", !.inputs = IF take THEN s.refs ELSE @]
      /\ IF take THEN Wrote(s) ELSE UNCHANGED <<blobs_, cap_disk, failures_, cap_used>>
      /\ UNCHANGED <<cap_mem, cap_tex, cap_clock, cap_manifest, cap_writes>>
\* ... which it does now ...
Touches(list, b) == \E i \in DOMAIN list : b >= list[i][1] /\ b < list[i][1] + list[i][2]
WrittenBy(p) == {b \in DOMAIN cap_mem : Touches(p.buffers, b) \/ Touches(p.guest_written, b)}
run_pass ==
  /\ cap_pass.step = "committed" /\ cap_clock' = cap_clock + 1
  /\ cap_mem' = [b \in DOMAIN cap_mem |-> IF b \in WrittenBy(cap_pass) THEN cap_clock' ELSE cap_mem[b]]
  /\ cap_tex' = [t \in Textures |-> IF \E i \in DOMAIN cap_pass.textures : cap_pass.textures[i].tex = t /\ cap_pass.textures[i].written
                                     THEN cap_clock' ELSE cap_tex[t]]
  /\ cap_pass' = [cap_pass EXCEPT !.step = "ran", !.ran = cap_mem, !.saw = cap_tex, !.left = cap_mem']
  /\ UNCHANGED <<blobs_, cap_disk, failures_, cap_used, cap_manifest, cap_writes>>

\* Mutant: the ranges the pass wrote are looked at too.
changed_outputs(inputs, outputs) ==
  {i \in DOMAIN inputs : inputs[i].file # NoFile /\ Contents(inputs[i].addr, inputs[i].size) # inputs[i].hash}
\* The stored inputs that are not what they were, but for what the pass wrote.
ChangedInputs(inputs, outputs) ==
  {i \in DOMAIN inputs :
     /\ inputs[i].file # NoFile
     /\ ~\E o \in DOMAIN outputs : inputs[i].addr < outputs[o].addr + outputs[o].size /\ outputs[o].addr < inputs[i].addr + inputs[i].size
     /\ Contents(inputs[i].addr, inputs[i].size) # inputs[i].hash}
\* ... and its outputs, what changed meanwhile, and the textures after it.
Finish(fails) ==
  LET p == cap_pass
      outs == FlattenSeq([i \in DOMAIN p.buffers |-> ClampReadable(<<p.buffers[i]>>)]) \o ClampReadable(CoalescePages(p.guest_written))
      s == IF p.replayable THEN Snapshots(Writer, outs, fails) ELSE Writer
      rest == {i \in DOMAIN p.textures : LET r == p.textures[i] IN ~r.written /\ r.pre # NoFile /\ r.pre[4] # cap_tex[r.tex]}
      post(w, r) == IF ~r.written \/ r.readback = "unreadable" \/ r.tex \in CapUnreadable \/ ~p.replayable THEN [w EXCEPT !.refs = Append(@, r)]
                    ELSE SaveRaw(w, r, "post", "post", FALSE)
      done == FoldLeft(post, [s EXCEPT !.refs = <<>>], p.textures)
  IN  /\ p.step = "ran" /\ cap_pass' = CapNone
      /\ cap_manifest' = Append(cap_manifest,
           [replayable |-> p.replayable, inputs |-> p.inputs, outputs |-> s.refs, textures |-> done.refs,
            unstable |-> IF p.replayable THEN [inputs |-> ChangedInputs(p.inputs, s.refs), textures |-> rest] ELSE [inputs |-> {}, textures |-> {}],
            reads |-> p.reads \o p.accessed, wrote |-> WrittenBy(p), ran |-> p.ran, saw |-> p.saw, left |-> p.left, quiet |-> p.quiet])
      /\ Wrote(done) /\ UNCHANGED <<cap_mem, cap_tex, cap_clock, cap_writes>>

\* A guest thread, or other GPU work.
Meanwhile ==
  /\ cap_writes < CapWrites /\ cap_writes' = cap_writes + 1 /\ cap_clock' = cap_clock + 1
  /\ cap_pass' = IF cap_pass.step = "none" THEN cap_pass ELSE [cap_pass EXCEPT !.quiet = FALSE]
  /\ UNCHANGED <<blobs_, cap_disk, failures_, cap_used, cap_manifest>>
guest_write(b) == Meanwhile /\ cap_mem' = [cap_mem EXCEPT ![b] = cap_clock'] /\ UNCHANGED cap_tex
other_work(t) == Meanwhile /\ cap_tex' = [cap_tex EXCEPT ![t] = cap_clock'] /\ UNCHANGED cap_mem

CapNext ==
  \/ \E replayable \in BOOLEAN, reads \in CapReads, buffers \in CapBuffers : begin_pass(replayable, reads, buffers)
  \/ \E uses \in CapUses, fails \in Failing : AddTextures(uses, fails)
  \/ \E x \in CapAccess, fails \in Failing : NoteGuestMemory(x.accessed, x.written, fails)
  \/ \E fails \in Failing : store_inputs(fails) \/ Finish(fails)
  \/ run_pass
  \/ \E b \in CapGuest : guest_write(b)
  \/ \E t \in Textures : other_work(t)

-----------------------------------------------------------------------------
CanRead(b) == \E i \in DOMAIN CapRegions : CapRegions[i][3] /\ b >= CapRegions[i][1] /\ b < CapRegions[i][2]
\* A pass of the manifest is the pass that ran, or says why not: what it read
\* and wrote and the host can read is recorded; every file named was written
\* and holds the contents of the hash; an input neither changed nor written by
\* the pass is what the pass saw; undisturbed, nothing is called changed and
\* the inputs and outputs are those of the pass; the raw files fit the budget.
CaptureFaithful ==
  /\ \A m \in DOMAIN cap_manifest :
       LET p == cap_manifest[m]
           same(ref, mem) == \A b \in DOMAIN ref.hash : ref.hash[b] = mem[b]
       IN  p.replayable =>
             /\ \A b \in DOMAIN cap_mem : b >= kPage /\ CanRead(b) =>
                  /\ Touches(p.reads, b) => \E i \in DOMAIN p.inputs : Holds(p.inputs[i], b)
                  /\ b \in p.wrote => \E i \in DOMAIN p.outputs : Holds(p.outputs[i], b)
             /\ \A refs \in {p.inputs, p.outputs} : \A i \in DOMAIN refs :
                  /\ \A b \in refs[i].addr..refs[i].addr + refs[i].size - 1 : CanRead(b)
                  /\ refs[i].file # NoFile => refs[i].file \in cap_disk /\ refs[i].file[4] = refs[i].hash
             /\ \A i \in DOMAIN p.inputs : p.inputs[i].file # NoFile /\ i \notin p.unstable.inputs
                                            /\ (p.quiet \/ ~\E b \in p.wrote : Holds(p.inputs[i], b))
                                            /\ (p.quiet \/ ~\E o \in DOMAIN p.outputs : \E b \in DOMAIN cap_mem : Holds(p.inputs[i], b) /\ Holds(p.outputs[o], b))
                                          => same(p.inputs[i], p.ran)
             /\ p.quiet => p.unstable = [inputs |-> {}, textures |-> {}] /\ \A o \in DOMAIN p.outputs : p.outputs[o].file # NoFile => same(p.outputs[o], p.left)
             /\ \A i \in DOMAIN p.textures : LET r == p.textures[i] IN
                  /\ r.pre # NoFile => r.pre \in cap_disk /\ (~r.written /\ i \notin p.unstable.textures => r.pre[4] = p.saw[r.tex])
                  /\ r.post # NoFile => r.post \in cap_disk
  /\ LET raw == {f \in cap_disk : f[1] \in {"pre", "post"}}
     IN  cap_used = FoldSet(LAMBDA f, n : n + CapSizes[f[3]], 0, raw) /\ cap_used <= CapLimit

-----------------------------------------------------------------------------
(***************************************************************************)
(* ps4_gnm_capture.cpp: manifest.json and the register files of a capture. *)
(* Every field is written by one of the writer's formats and read by one   *)
(* of the loader's: a frame is a function from field names ("list.field"   *)
(* in a list's element) to values.  U and I write decimals, which come     *)
(* back through a double; H writes a hex string; D is an array of doubles. *)
(***************************************************************************)

CONSTANTS DoubleExact,   \* 2^53: integers above it lose their low bit in a double
          MfStrings,     \* a sequence of strings, sequences of characters
          MfNonFinite,   \* TRUE: a viewport may hold an infinity or a NaN
          MfRegs,        \* register indices of the file, 0 .. kNumRegs - 1
          MfChanges      \* bound: fields that differ from their defaults
ASSUME MfAssumption == DoubleExact \in Nat /\ MfNonFinite \in BOOLEAN /\ MfChanges \in Nat

Of(list, names) == {<<list, n>> : n \in names}

\* The fields by the format they are written in ...
WriteBlob(list) == [H |-> Of(list, {"addr", "hash"}), U |-> Of(list, {"size"}), S |-> Of(list, {"file"})]
WriteTextureId ==
  [I |-> Of("id", {"kind"}), H |-> Of("id", {"address"}),
   U |-> Of("id", {"size", "mtl_format", "entry_format", "tex_type", "width", "height", "depth", "levels", "layers", "samples", "dfmt", "nfmt",
                   "mtl_type", "mtl_width", "mtl_height", "mtl_depth", "mtl_levels", "mtl_array", "mtl_samples", "usage", "storage_mode"}),
   Arr |-> Of("id", {"swizzle", "cb_swizzle", "surface"})]
WritePass ==
  [U |-> Of("pass", {"index", "index_type", "index_offset", "count", "max_index", "num_instances", "db_extent"}) \union Of("stages", {"code_size"})
           \union Of("buffers", {"index", "size", "stride"})
           \union Of("images", {"index", "dfmt", "nfmt", "width", "height", "depth", "levels", "layers", "type", "tile_mode", "guest_bytes"})
           \union Of("samplers", {"index"}) \union Of("state", {"prim", "color_mode", "depth_compare", "stencil_ref_front", "stencil_ref_back"}),
   I |-> Of("pass", {"base_vertex_ud", "start_instance_ud"}),
   H |-> Of("pass", {"regs_hash", "index_base", "indirect_addr"}) \union Of("stages", {"code_addr", "pgm_hash", "msl_hash"})
           \union Of("buffers", {"addr"}) \union Of("images", {"addr"}) \union Of("textures", {"pre_hash", "post_hash"}),
   B |-> Of("pass", {"replayable", "indexed"}) \union Of("buffers", {"written"}) \union Of("images", {"storage", "depth_image"})
           \union Of("textures", {"written"}) \union Of("state", {"depth_test", "depth_write", "stencil_test"}),
   S |-> Of("pass", {"type", "queue", "name", "skipped", "regs_file", "unstable"}) \union Of("stages", {"stage"}) \union Of("buffers", {"stage"})
           \union Of("images", {"stage"}) \union Of("samplers", {"stage"})
           \union Of("textures", {"role", "pre_file", "post_file", "png_file", "png_mode", "readback"}),
   Arr |-> Of("pass", {"cb_extent", "dim", "indirect_args"}) \union Of("images", {"textures"}) \union Of("state", {"blend_enable", "write_mask", "scissor"}),
   Hexes |-> Of("stages", {"user_data"}) \union Of("buffers", {"vsharp"}) \union Of("images", {"tsharp"}) \union Of("samplers", {"ssharp"})
           \union Of("pass", {"meta_cleared", "meta_cleared_slices"}) \union Of("state", {"blend_raw"}),
   D |-> Of("state", {"viewport"})]
WriteManifest == [I |-> Of("frame", {"version"}), U |-> Of("frame", {"frame"}), H |-> Of("frame", {"mem_size"}),
                  B |-> Of("frame", {"neo"}), S |-> Of("frame", {"gcn_cache_id"})]
Writers == {WriteManifest, WritePass, WriteTextureId, WriteBlob("inputs"), WriteBlob("outputs")}
WrittenAs(f) == LET w == CHOOSE w \in Writers : \E k \in DOMAIN w : f \in w[k] IN CHOOSE k \in DOMAIN w : f \in w[k]
Table == <<"images", "table">>   \* written, with entry, only when it is not -1
Entry == <<"images", "entry">>
Fields == UNION {UNION {w[k] : k \in DOMAIN w} : w \in Writers} \union {Table, Entry}

\* ... and by the accessor that reads them back.
Blob(list) == [U |-> Of(list, {"addr", "size", "hash"}), S |-> Of(list, {"file"})]
TexId ==
  [I |-> Of("id", {"kind"}),
   U |-> Of("id", {"address", "size", "mtl_format", "entry_format", "tex_type", "width", "height", "depth", "levels", "layers", "samples", "dfmt", "nfmt",
                   "mtl_type", "mtl_width", "mtl_height", "mtl_depth", "mtl_levels", "mtl_array", "mtl_samples", "usage", "storage_mode"}),
   Arr |-> Of("id", {"swizzle", "cb_swizzle", "surface"})]
Pass ==
  [U |-> Of("pass", {"index", "regs_hash", "index_base", "index_type", "index_offset", "count", "max_index", "num_instances", "db_extent", "indirect_addr"})
           \union Of("stages", {"code_addr", "code_size", "pgm_hash", "msl_hash"}) \union Of("buffers", {"index", "addr", "size", "stride"})
           \union Of("images", {"index", "addr", "dfmt", "nfmt", "width", "height", "depth", "levels", "layers", "type", "tile_mode", "guest_bytes"})
           \union Of("samplers", {"index"}) \union Of("textures", {"pre_hash", "post_hash"})
           \union Of("state", {"prim", "color_mode", "depth_compare", "stencil_ref_front", "stencil_ref_back"}),
   I |-> Of("pass", {"base_vertex_ud", "start_instance_ud"}),
   B |-> Of("pass", {"replayable", "indexed"}) \union Of("buffers", {"written"}) \union Of("images", {"storage", "depth_image"})
           \union Of("textures", {"written"}) \union Of("state", {"depth_test", "depth_write", "stencil_test"}),
   S |-> Of("pass", {"type", "queue", "name", "skipped", "regs_file", "unstable"})
           \union UNION {Of(l, {"stage"}) : l \in {"stages", "buffers", "images", "samplers"}}
           \union Of("textures", {"role", "pre_file", "post_file", "png_file", "png_mode", "readback"}),
   Arr |-> Of("pass", {"cb_extent", "dim", "indirect_args", "meta_cleared", "meta_cleared_slices"}) \union Of("stages", {"user_data"})
           \union Of("buffers", {"vsharp"}) \union Of("images", {"tsharp", "textures"}) \union Of("samplers", {"ssharp"})
           \union Of("state", {"blend_enable", "blend_raw", "write_mask", "viewport", "scissor"})]
ReadManifest == [I |-> Of("frame", {"version"}), U |-> Of("frame", {"frame", "mem_size"}), B |-> Of("frame", {"neo"}), S |-> Of("frame", {"gcn_cache_id"})]
Readers == {ReadManifest, Pass, TexId, Blob("inputs"), Blob("outputs")}
ReadAs(f) == LET r == CHOOSE r \in Readers : \E k \in DOMAIN r : f \in r[k] IN CHOOSE k \in DOMAIN r : f \in r[k]

\* The values a field may have, its default first; 64-bit ones in hex pass DoubleExact.
Values(f) ==
  LET k == IF f \in {Table, Entry} THEN "table" ELSE WrittenAs(f)
  IN  CASE k = "table" -> <<-1, 0, 1>> [] f = <<"frame", "version">> -> <<1>>
        [] k = "U" -> <<0, 1, DoubleExact>> [] k = "H" -> <<0, DoubleExact, DoubleExact + 1>>
        [] k = "I" /\ f # <<"frame", "version">> -> <<0, -1, 1>> [] k = "B" -> <<FALSE, TRUE>>
        [] k = "S" -> <<<<>>>> \o MfStrings [] k = "D" -> <<<<>>, <<"finite">>>> \o IF MfNonFinite THEN <<<<"inf">>>> ELSE <<>>
        [] k \in {"Arr", "Hexes"} -> <<<<>>, <<1>>, <<0, 1>>>>
Default(f) == Values(f)[1]

VARIABLES frame_, mf_regs,     \* what was recorded
          mf_step,             \* "recording", "written", "loaded", "refused"
          mf_text, mf_loaded,  \* the files, and what was loaded from them
          mf_changed
mf_vars == <<frame_, mf_regs, mf_step, mf_text, mf_loaded, mf_changed>>
MfInit ==
  /\ frame_ = [f \in Fields |-> Default(f)] /\ mf_step = "recording"
  /\ mf_text = [fields |-> <<>>, regs |-> {}] /\ mf_loaded = [frame |-> <<>>, regs |-> <<>>]
  /\ mf_regs \in [MfRegs -> {0, 7}] /\ mf_changed = 0

\* Str and String: quotes and backslashes are escaped, control characters numbered.
Str(v) == FlattenSeq([i \in DOMAIN v |-> IF v[i] \in {"quote", "backslash"} THEN <<"backslash", v[i]>>
                                         ELSE IF v[i] = "control" THEN <<"backslash", "u", "01">> ELSE <<v[i]>>]) \o <<"quote">>
\* Mutant: an escape is one character whatever follows it.
string_short(t) ==
  LET read[i \in 1..Len(t)] ==
        IF t[i] = "quote" THEN <<>>
        ELSE IF t[i] = "backslash" THEN read[i + 1]
        ELSE <<t[i]>> \o read[i + 1]
  IN  read[1]
String(t) ==
  LET read[i \in 1..Len(t)] ==
        IF t[i] = "quote" THEN <<>>
        ELSE IF t[i] = "backslash" THEN IF t[i + 1] = "u" THEN <<"control">> \o read[i + 3] ELSE <<t[i + 1]>> \o read[i + 2]
        ELSE <<t[i]>> \o read[i + 1]
  IN  read[1]

\* The text of a value, as the JSON value a parser sees, and back.
AsDouble(n) == IF n > DoubleExact THEN n - (n % 2) ELSE n
Json(k, v) == CASE k \in {"U", "I"} -> [t |-> "Num", v |-> AsDouble(v)] [] k = "H" -> [t |-> "Str", v |-> v] [] k = "B" -> [t |-> "Bool", v |-> v]
                [] k = "S" -> [t |-> "Str", v |-> Str(v)] [] OTHER -> [t |-> "Arr", v |-> v]
Value(k, j) == CASE k = "U" -> j.v
                 [] k = "I" -> IF j.t = "Num" THEN j.v ELSE 0
                 [] k = "B" -> j.t = "Bool" /\ j.v
                 [] k = "S" -> IF j.t = "Str" THEN String(j.v) ELSE <<>>
                 [] OTHER -> IF j.t = "Arr" THEN j.v ELSE <<>>

\* The renderer records a field; a table's entry goes with it.
set_field(f, v) ==
  /\ mf_step = "recording" /\ mf_changed < MfChanges /\ mf_changed' = mf_changed + 1 /\ f # Entry /\ v # Default(f)
  /\ frame_' = IF f = Table THEN [frame_ EXCEPT ![Table] = v, ![Entry] = v] ELSE [frame_ EXCEPT ![f] = v]
  /\ UNCHANGED <<mf_regs, mf_step, mf_text, mf_loaded>>

\* Writer::Finish and SaveRegs: the non-zero registers, as pairs.
RegPairs == {<<r, mf_regs[r]>> : r \in {x \in MfRegs : mf_regs[x] # 0}}
finish_manifest ==
  /\ mf_step = "recording" /\ mf_step' = "written"
  /\ mf_text' = [fields |-> [f \in IF frame_[Table] >= 0 THEN Fields ELSE Fields \ {Table, Entry} |->
                               Json(IF f \in {Table, Entry} THEN "U" ELSE WrittenAs(f), frame_[f])],
                 regs |-> RegPairs]
  /\ UNCHANGED <<frame_, mf_regs, mf_loaded, mf_changed>>

\* One value the parser does not take refuses the whole manifest.
Parses(text) == \A f \in WritePass.D : \A i \in DOMAIN text.fields[f].v : text.fields[f].v[i] # "inf"
\* Mutant: an image without a table reads as entry 0 of table 0.
parse_no_default(text) ==
  [f \in Fields |-> IF f \in {Table, Entry} THEN IF f \in DOMAIN text.fields THEN text.fields[f].v ELSE 0 ELSE Value(ReadAs(f), text.fields[f])]
ParseManifest(text) ==
  [f \in Fields |-> IF f \in {Table, Entry} THEN IF Table \in DOMAIN text.fields THEN text.fields[f].v ELSE -1 ELSE Value(ReadAs(f), text.fields[f])]
LoadRegs(text) == [r \in MfRegs |-> IF \E p \in text.regs : p[1] = r THEN (CHOOSE p \in text.regs : p[1] = r)[2] ELSE 0]
LoadFrame ==
  /\ mf_step = "written"
  /\ IF Parses(mf_text) THEN mf_step' = "loaded" /\ mf_loaded' = [frame |-> ParseManifest(mf_text), regs |-> LoadRegs(mf_text)]
     ELSE mf_step' = "refused" /\ UNCHANGED mf_loaded
  /\ UNCHANGED <<frame_, mf_regs, mf_text, mf_changed>>

MfNext == (\E f \in Fields : \E v \in ToSet(Values(f)) : set_field(f, v)) \/ finish_manifest \/ LoadFrame

-----------------------------------------------------------------------------
\* ps4_gnm_capture.h: ParseManifest accepts what WriteManifest writes; and the
\* frame and the register file it loads are the ones that were recorded.
ManifestLoads == mf_step # "refused" /\ (mf_step = "loaded" => mf_loaded = [frame |-> frame_, regs |-> mf_regs])
=============================================================================
