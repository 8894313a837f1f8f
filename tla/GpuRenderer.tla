----------------------------- MODULE GpuRenderer -----------------------------
(***************************************************************************)
(* minuitwrp_gl and the hooks of subpatch/0041 that hand the recovery's    *)
(* drawing over to it.  Threads of the GUI draw frames, one at a time, into *)
(* a canvas that keeps its contents; a flip copies it into the buffer that *)
(* is shown next.  A surface is uploaded when it is first drawn; any thread *)
(* may free one at any time.  When the driver fails, the CPU draws.        *)
(***************************************************************************)
EXTENDS Naturals

CONSTANTS
    Threads,  \* the threads of the GUI
    Widgets,  \* the parts of the screen
    Addrs,    \* where malloc places surfaces
    Data,     \* where it places their pixels
    Images,   \* what the pixels show
    Texs,     \* the texture names of the driver
    Faults    \* whether "makeCurrent" may fail

ASSUME GpuRendererAssumption ==
    /\ "blank" \notin Images /\ "none" \notin Images \cup Texs /\ "nobody" \notin Threads
    /\ Faults \subseteq {"makeCurrent"}

VARIABLES
    active,  \* g.active
    holder,  \* the thread whose current context is g.ctx
    cache,   \* g.cache: the texture of a surface and the pixels it was made of
    doomed,  \* g.doomed
    texs,    \* what each texture shows
    heap,    \* the surfaces there are
    leaving, \* those that were forgotten and are about to be freed
    gui,     \* what the GUI has drawn
    canvas,  \* what is on the canvas of the GPU
    cpu,     \* what is in gr_draw, where the CPU draws
    bufs,    \* the buffers from the dma-buf heap and the dumb buffers
    disp,    \* the buffers the planes scan out, the one shown and the back buffer
    frame    \* the frame being drawn, and the surface in hand

vars == <<active, holder, cache, doomed, texs, heap, leaving, gui, canvas, cpu, bufs, disp, frame>>
surfaces == <<heap, leaving>>
screen   == <<bufs, disp>>

Nothing == [data |-> "none", image |-> "none"]
NoEntry == [data |-> "none", tex |-> "none"]
Blank   == [w \in Widgets |-> "blank"]
Frames  == [Widgets -> Images \cup {"blank"}]
Rest(t) == [pc |-> "none", thread |-> t, widget |-> "none", addr |-> "none", tex |-> "none"]

TypeOK ==
    /\ active \in BOOLEAN
    /\ holder \in Threads \cup {"nobody"}
    /\ cache \in [Addrs -> [data : Data, tex : Texs] \cup {NoEntry}]
    /\ doomed \subseteq Texs
    /\ texs \in [Texs -> Images \cup {"none"}]
    /\ heap \in [Addrs -> [data : Data, image : Images] \cup {Nothing}]
    /\ leaving \subseteq Addrs
    /\ gui \in Frames /\ canvas \in Frames /\ cpu \in Frames
    /\ bufs \in [{"heap", "dumb"} -> [{0, 1} -> Frames]]
    /\ disp \in [planes : {"heap", "dumb"}, shown : {0, 1}, back : {0, 1}]
    /\ frame \in [pc : {"none", "draw", "upload", "texture"}, thread : Threads \cup {"nobody"},
                  widget : Widgets \cup {"none"}, addr : Addrs \cup {"none"},
                  tex : Texs \cup {"none"}]

\* The planes get buffers from a dma-buf heap if there are two and the driver starts with them.
Planes == IF active THEN "heap" ELSE "dumb"

\* gr_init: the driver was staged and starts, or the CPU draws from the start.
Init ==
    /\ active \in BOOLEAN
    /\ holder = "nobody"
    /\ cache = [a \in Addrs |-> NoEntry] /\ doomed = {}
    /\ texs = [x \in Texs |-> "none"]
    /\ heap = [a \in Addrs |-> Nothing] /\ leaving = {}
    /\ gui = Blank /\ canvas = Blank /\ cpu = Blank
    /\ bufs = [k \in {"heap", "dumb"} |-> [i \in {0, 1} |-> Blank]]
    /\ disp = [planes |-> Planes, shown |-> 1, back |-> 0]
    /\ frame = Rest("nobody")

-----------------------------------------------------------------------------
(***************************************************************************)
(* Begin and End.                                                          *)
(***************************************************************************)
\* The context becomes, or is, that of thread t and in the end that of next;
\* what is doomed is deleted.
Begin(t, next) ==
    /\ active
    /\ holder \in {"nobody", t}
    /\ holder' = next
    /\ doomed' = {}
    /\ texs' = [x \in Texs |-> IF x \in doomed THEN "none" ELSE texs[x]]
    /\ UNCHANGED active

\* A context is current on one thread at most.  From here on the CPU draws.
BeginFails(t) ==
    /\ active
    /\ holder # t
    /\ holder # "nobody" \/ "makeCurrent" \in Faults
    /\ active' = FALSE
    /\ UNCHANGED <<holder, doomed, texs>>

OnCpu == ~active /\ UNCHANGED <<active, holder, doomed, texs>>

EndKeeps(t) == t  \* mutant: the context is not let go of
End(t) == "nobody"

-----------------------------------------------------------------------------
(***************************************************************************)
(* A frame.                                                                *)
(***************************************************************************)
StartFrame(t) ==
    /\ frame.pc = "none"
    /\ frame' = [Rest(t) EXCEPT !.pc = "draw"]
    /\ UNCHANGED <<active, holder, cache, doomed, texs, surfaces, gui, canvas, cpu, screen>>

\* gr_clear, and whatever else draws without a surface.
Clear ==
    /\ frame.pc = "draw"
    /\ gui' = Blank
    /\ \/ Begin(frame.thread, frame.thread) /\ canvas' = Blank /\ UNCHANGED cpu
       \/ BeginFails(frame.thread) /\ UNCHANGED <<canvas, cpu>>
       \/ OnCpu /\ cpu' = Blank /\ UNCHANGED canvas
    /\ UNCHANGED <<cache, surfaces, screen, frame>>

\* gr_blit and gr_ttf_textExWH: what fails on the GPU is not drawn on the CPU.
Blit(w, a) ==
    /\ frame.pc = "draw"
    /\ heap[a] # Nothing /\ a \notin leaving
    /\ gui' = [gui EXCEPT ![w] = heap[a].image]
    /\ \/ /\ Begin(frame.thread, frame.thread)
          /\ frame' = [frame EXCEPT !.pc = "upload", !.widget = w, !.addr = a]
          /\ UNCHANGED cpu
       \/ BeginFails(frame.thread) /\ UNCHANGED <<cpu, frame>>
       \/ OnCpu /\ cpu' = [cpu EXCEPT ![w] = heap[a].image] /\ UNCHANGED frame
    /\ UNCHANGED <<cache, surfaces, canvas, screen>>

CurrentAlways(a) == cache[a] # NoEntry  \* mutant: the entry of an address is taken as it is
Current(a) == cache[a] # NoEntry /\ cache[a].data = heap[a].data

UploadHit ==
    /\ frame.pc = "upload"
    /\ Current(frame.addr)
    /\ frame' = [frame EXCEPT !.pc = "texture", !.tex = cache[frame.addr].tex]
    /\ UNCHANGED <<active, holder, cache, doomed, texs, surfaces, gui, canvas, cpu, screen>>

Outdated(a) == {cache[a].tex} \cap Texs

\* glGenTextures may return a name that was deleted before.
UploadMiss ==
    /\ frame.pc = "upload"
    /\ ~Current(frame.addr)
    /\ LET a == frame.addr
           left == [x \in Texs |-> IF x \in Outdated(a) THEN "none" ELSE texs[x]]
       IN \E x \in {y \in Texs : left[y] = "none"} :
            /\ texs' = [left EXCEPT ![x] = heap[a].image]
            /\ cache' = [cache EXCEPT ![a] = [data |-> heap[a].data, tex |-> x]]
            /\ frame' = [frame EXCEPT !.pc = "texture", !.tex = x]
    /\ UNCHANGED <<active, holder, doomed, surfaces, gui, canvas, cpu, screen>>

DrawTexture ==
    /\ frame.pc = "texture"
    /\ canvas' = [canvas EXCEPT ![frame.widget] = texs[frame.tex]]
    /\ frame' = [Rest(frame.thread) EXCEPT !.pc = "draw"]
    /\ UNCHANGED <<active, holder, cache, doomed, texs, surfaces, gui, cpu, screen>>

NextBackOver(b) == b + 1  \* mutant: the back buffers are numbered on
NextBack(b) == 1 - b

Show == disp' = [disp EXCEPT !.shown = disp.back, !.back = NextBack(disp.back)]

CpuFlip == bufs' = [bufs EXCEPT !["dumb"][disp.back] = cpu] /\ Show

Flip ==
    /\ frame.pc = "draw"
    /\ \/ /\ Begin(frame.thread, End(frame.thread))
          /\ bufs' = [bufs EXCEPT !["heap"][disp.back] = canvas]
          /\ Show
       \/ BeginFails(frame.thread) /\ CpuFlip
       \/ OnCpu /\ CpuFlip
    /\ frame' = Rest("nobody")
    /\ UNCHANGED <<cache, surfaces, gui, canvas, cpu>>

\* A screenshot, by the thread that draws or between two frames.
Read(t) ==
    /\ \/ frame.pc = "none"
       \/ frame.pc = "draw" /\ t = frame.thread
    /\ Begin(t, End(t)) \/ BeginFails(t)
    /\ UNCHANGED <<cache, surfaces, gui, canvas, cpu, screen, frame>>

-----------------------------------------------------------------------------
(***************************************************************************)
(* Surfaces come and go on any thread, but for the one being uploaded.     *)
(***************************************************************************)
InHand(a) == frame.pc = "upload" /\ frame.addr = a

Alloc(a, d, i) ==
    /\ heap[a] = Nothing
    /\ \A b \in Addrs : heap[b].data # d
    /\ heap' = [heap EXCEPT ![a] = [data |-> d, image |-> i]]
    /\ UNCHANGED <<active, holder, cache, doomed, texs, leaving, gui, canvas, cpu, screen, frame>>

\* The same struct gets other pixels, elsewhere than those it was last drawn with.
Redescribe(a, d, i) ==
    /\ heap[a] # Nothing /\ a \notin leaving /\ ~InHand(a)
    /\ cache[a].data # d
    /\ \A b \in Addrs : heap[b].data # d
    /\ heap' = [heap EXCEPT ![a] = [data |-> d, image |-> i]]
    /\ UNCHANGED <<active, holder, cache, doomed, texs, leaving, gui, canvas, cpu, screen, frame>>

Forgotten(a) == [cache EXCEPT ![a] = NoEntry]

\* gr_gl_forget: the texture is left to the thread that draws.
Forget(a) ==
    /\ heap[a] # Nothing /\ a \notin leaving /\ ~InHand(a)
    /\ doomed' = doomed \cup ({cache[a].tex} \cap Texs)
    /\ cache' = Forgotten(a)
    /\ leaving' = leaving \cup {a}
    /\ UNCHANGED <<active, holder, texs, heap, gui, canvas, cpu, screen, frame>>

Free(a) ==
    /\ a \in leaving
    /\ heap' = [heap EXCEPT ![a] = Nothing]
    /\ leaving' = leaving \ {a}
    /\ UNCHANGED <<active, holder, cache, doomed, texs, gui, canvas, cpu, screen, frame>>

Next ==
    \/ \E t \in Threads : StartFrame(t) \/ Read(t)
    \/ Clear \/ (\E w \in Widgets, a \in Addrs : Blit(w, a))
    \/ UploadHit \/ UploadMiss \/ DrawTexture \/ Flip
    \/ \E a \in Addrs :
         \/ \E d \in Data, i \in Images : Alloc(a, d, i) \/ Redescribe(a, d, i)
         \/ Forget(a) \/ Free(a)

Spec == Init /\ [][Next]_vars

-----------------------------------------------------------------------------
(***************************************************************************)
(* Properties.                                                             *)
(***************************************************************************)
\* Between two frames the screen shows all that the GUI has drawn, each surface
\* as it was when it was drawn, whatever was freed and allocated since: from the
\* GPU as long as the driver works, from the CPU where it never did.
Intact == disp.planes = "heap" => active

ShownIsDrawn == frame.pc = "none" /\ Intact => bufs[disp.planes][disp.shown] = gui

\* What minuitwrp_gl.h says: the CPU path is in charge after any later failure.
FailureLeavesCpu == frame.pc = "none" => bufs[disp.planes][disp.shown] = gui

\* Each texture belongs to one surface or waits for its deletion: none is lost,
\* and none is deleted while a surface still has it.
Cached == {cache[a].tex : a \in Addrs} \ {"none"}

EachTextureOwned ==
    /\ {x \in Texs : texs[x] # "none"} = Cached \cup doomed
    /\ Cached \cap doomed = {}
    /\ \A a, b \in Addrs : cache[a] # NoEntry /\ cache[a].tex = cache[b].tex => a = b

\* No entry outlives its surface: malloc may place another one there.
CacheOfTheLiving == \A a \in Addrs : cache[a] # NoEntry => heap[a] # Nothing /\ a \notin leaving

\* The GPU is given up when the driver fails, never because another thread, of
\* an earlier frame or of a screenshot, still has the context.
StaysOnGpu == [][active' # active => holder = "nobody"]_vars

\* A buffer is not drawn into while the planes scan it out.
ShownNotWritten ==
    [][bufs'[disp.planes][disp.shown] = bufs[disp.planes][disp.shown]]_vars

\* The strengthening that makes the properties above inductive.
HolderInv == holder = "nobody" \/ (active /\ frame.pc # "none" /\ holder = frame.thread)

FrameInv ==
    /\ frame.pc # "none" => frame.thread \in Threads
    /\ frame.pc \in {"upload", "texture"} => frame.widget \in Widgets
    /\ frame.pc = "upload" => frame.addr \in Addrs /\ heap[frame.addr] # Nothing /\ frame.addr \notin leaving
    /\ frame.pc = "texture" => frame.tex \in Texs /\ texs[frame.tex] # "none"

\* A texture that is taken for that of a surface shows it.
ImageInv == \A a \in Addrs : Current(a) => texs[cache[a].tex] = heap[a].image

\* What is still to be drawn of the frame is the surface in hand.
PictureInv ==
    /\ disp.shown # disp.back
    /\ disp.planes = "dumb" => ~active /\ cpu = gui /\ frame.pc \in {"none", "draw"}
    /\ disp.planes = "heap" /\ active =>
         /\ frame.pc \in {"none", "draw"} => canvas = gui
         /\ frame.pc = "upload" => gui = [canvas EXCEPT ![frame.widget] = heap[frame.addr].image]
         /\ frame.pc = "texture" => gui = [canvas EXCEPT ![frame.widget] = texs[frame.tex]]

IInv ==
    /\ TypeOK /\ HolderInv /\ FrameInv
    /\ CacheOfTheLiving /\ EachTextureOwned /\ ImageInv
    /\ PictureInv /\ ShownIsDrawn

=============================================================================
