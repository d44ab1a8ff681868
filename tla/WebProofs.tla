------------------------------- MODULE WebProofs -------------------------------
(***************************************************************************)
(* Proofs about the web build: what the driver keeps of the browser's      *)
(* contexts, of the memory of a surface and of the fullscreen element is   *)
(* so, for any number of windows, sizes and contexts; the keys the program *)
(* reads as down are those it should, and each event means what was held;  *)
(* and canvases, focus and lock lead to windows that are there, for any    *)
(* number of windows, canvases and places.                                 *)
(***************************************************************************)
EXTENDS WebKeyboard, WebGraphics, WebPointer, SequenceTheorems, TLAPS

-----------------------------------------------------------------------------
(* Graphics: the inductive invariant. *)

\* A context a window names was created and not destroyed since.
ContextsNamed ==
  \A p \in Panes :
    /\ webgl_context[p] # None => webgl_context[p] \in contexts
    /\ sw_context[p] > 0 => sw_context[p] \in contexts

\* No two windows name one context, and no window names one twice: closing a
\* window takes nothing from another.
ContextsApart ==
  \A p, q \in Panes :
    /\ webgl_context[p] # None => webgl_context[p] # sw_context[q]
    /\ p # q => /\ webgl_context[p] # None => webgl_context[p] # webgl_context[q]
                /\ sw_context[p] > 0 => sw_context[p] # sw_context[q]

\* The texture and program are in a context that is there.
ReadyPainted == \A p \in sw_gl_ready : sw_context[p] > 0 /\ sw_context[p] \in painted

\* Handles are given in order, and what is painted is there.
ContextTypes ==
  /\ created \in Nat /\ contexts \subseteq 1 .. created /\ painted \subseteq contexts
  /\ webgl_context \in [Panes -> Nat]
  /\ sw_context \in [Panes -> Nat \cup {Refused}]
  /\ open \subseteq Panes /\ sw_gl_ready \subseteq Panes

SurfaceTypes ==
  /\ size \in [Panes -> Nat]
  /\ surface \in [Panes -> [side : Nat, bytes : Nat]]

\* A canvas that is fullscreen, or is to become so, is one whose window says so,
\* or one of the exceptions.
Excepted(c) == overtaken \/ (c = PageCanvas /\ abandoned)

ScreenTold ==
  /\ \A c \in {screen, requested} \ {NoPane} : Says(c) \/ Excepted(c)
  /\ overtaken \in BOOLEAN /\ abandoned \in BOOLEAN

ContextInv == ContextTypes /\ ContextsNamed /\ ContextsApart /\ ReadyPainted
SurfaceInv == SurfaceTypes /\ PixelsCoverSurface

LEMMA ContextInvInit == GraphicsInit => ContextInv
BY DEF GraphicsInit, ContextInv, ContextTypes, ContextsNamed, ContextsApart, ReadyPainted, None, Refused

LEMMA SurfaceInvInit == GraphicsInit => SurfaceInv
BY DEF GraphicsInit, SurfaceInv, SurfaceTypes, PixelsCoverSurface, NoSurface

LEMMA ScreenInit == GraphicsInit => ScreenTold
BY DEF GraphicsInit, ScreenTold

-----------------------------------------------------------------------------
(* Graphics: every step. *)

\* What a step that touches no context leaves as it was.
LEMMA ContextsUnchanged ==
  ASSUME ContextInv, UNCHANGED contextVars, open' \subseteq Panes
  PROVE  ContextInv'
BY DEF ContextInv, ContextTypes, ContextsNamed, ContextsApart, ReadyPainted, contextVars

\* A new context is apart from all there were.
LEMMA EnsureGLKeeps ==
  ASSUME ContextInv, NEW p \in Panes, NEW c, EnsureGL(p, c), UNCHANGED <<open, webgl_context>>
  PROVE  ContextInv'
<1> USE DEF ContextInv, ContextTypes, ContextsNamed, ContextsApart, ReadyPainted, None, Refused, Handles
<1>1. CASE sw_context[p] # None
  <2>1. /\ c = sw_context[p] /\ contexts' = contexts /\ created' = created
        /\ sw_context' = [sw_context EXCEPT ![p] = c]
    BY <1>1 DEF EnsureGL
  <2>2. sw_context' = sw_context
    BY <2>1
  <2>3. CASE c \in contexts
    <3>1. sw_gl_ready' = sw_gl_ready \cup {p}
          /\ painted' = IF p \in sw_gl_ready THEN painted ELSE painted \cup {c}
      BY <2>1, <2>3 DEF EnsureGL
    <3>2. c > 0
      BY <2>3
    <3>3. ReadyPainted'
      BY <2>1, <2>2, <3>1, <3>2
    <3>4. ContextTypes' /\ ContextsNamed' /\ ContextsApart'
      BY <2>1, <2>2, <2>3, <3>1
    <3>5. QED
      BY <3>3, <3>4
  <2>4. CASE c \notin contexts
    BY <2>1, <2>2, <2>4 DEF EnsureGL
  <2>5. QED
    BY <2>3, <2>4
<1>2. CASE sw_context[p] = None /\ c \in {None, Refused}
  <2>1. /\ contexts' = contexts /\ created' = created /\ c \notin contexts
        /\ sw_context' = [sw_context EXCEPT ![p] = c]
        /\ UNCHANGED <<sw_gl_ready, painted>>
    BY <1>2 DEF EnsureGL
  <2>2. ContextTypes' /\ ContextsNamed' /\ ContextsApart'
    BY <1>2, <2>1
  <2>3. ReadyPainted'
    BY <1>2, <2>1
  <2>4. QED
    BY <2>2, <2>3
<1>3. CASE sw_context[p] = None /\ c = created + 1
  <2>1. /\ sw_context' = [sw_context EXCEPT ![p] = c] /\ contexts' = contexts \cup {c}
        /\ created' = c /\ c \in contexts' /\ bound' = c
        /\ sw_gl_ready' = sw_gl_ready \cup {p} /\ p \notin sw_gl_ready
        /\ painted' = painted \cup {c}
    BY <1>3 DEF EnsureGL
  <2>2. ContextTypes'
    BY <1>3, <2>1
  <2>3. ContextsNamed' /\ ReadyPainted'
    BY <1>3, <2>1
  <2>4. ContextsApart'
    BY <1>3, <2>1
  <2>5. QED
    BY <2>2, <2>3, <2>4
<1>4. c \in {None, Refused, created + 1} \/ sw_context[p] # None
  BY DEF EnsureGL, CreatedContext
<1>5. QED
  BY <1>1, <1>2, <1>3, <1>4

LEMMA DestroySurfaceKeeps ==
  ASSUME ContextInv, NEW p \in Panes, DestroyPaneSurface(p)
  PROVE  ContextInv'
BY DEF ContextInv, ContextTypes, ContextsNamed, ContextsApart, ReadyPainted, DestroyPaneSurface,
       DropFramebuffer, paneVars, None

LEMMA CloseKeeps ==
  ASSUME ContextInv, NEW p \in Panes, ClosePane(p)
  PROVE  ContextInv'
<1> USE DEF ContextInv, ContextTypes, ContextsNamed, ContextsApart, ReadyPainted, None, Refused
<1>1. /\ contexts' = contexts \ {webgl_context[p], sw_context[p]}
      /\ painted' = painted \ {webgl_context[p], sw_context[p]}
      /\ webgl_context' = [webgl_context EXCEPT ![p] = None]
      /\ sw_context' = [sw_context EXCEPT ![p] = None]
      /\ sw_gl_ready' = sw_gl_ready \ {p}
      /\ open' = open \ {p} /\ created' = created
  BY DEF ClosePane, Without
<1>2. ContextTypes'
  BY <1>1
<1>3. ContextsNamed'
  BY <1>1
<1>4. ContextsApart'
  BY <1>1
<1>5. ReadyPainted'
  BY <1>1
<1>6. QED
  BY <1>2, <1>3, <1>4, <1>5

LEMMA CreateContextKeeps ==
  ASSUME ContextInv, NEW p \in Panes, CreatePaneContext(p)
  PROVE  ContextInv'
<1> USE DEF ContextInv, ContextTypes, ContextsNamed, ContextsApart, ReadyPainted, None, Refused
<1>1. PICK c \in CreatedContext \ {None, Refused} :
        /\ webgl_context' = [webgl_context EXCEPT ![p] = c]
        /\ contexts' = contexts \cup {c} /\ created' = c
        /\ UNCHANGED <<open, sw_context, sw_gl_ready, painted>>
  BY DEF CreatePaneContext, paneVars
<1>2. c = created + 1 /\ c \notin contexts
  BY <1>1 DEF CreatedContext
<1>3. ContextTypes' /\ ContextsNamed' /\ ReadyPainted'
  BY <1>1, <1>2
<1>4. ContextsApart'
  BY <1>1, <1>2
<1>5. QED
  BY <1>3, <1>4

LEMMA DestroyContextKeeps ==
  ASSUME ContextInv, NEW c, DestroyPaneContext(c)
  PROVE  ContextInv'
BY DEF ContextInv, ContextTypes, ContextsNamed, ContextsApart, ReadyPainted, DestroyPaneContext,
       Without, ForgetContext, paneVars, None, Refused

\* a % (m + 1) is a for a up to m: what a size_t can hold it does hold.
LEMMA HeldAsIs == ASSUME NEW a \in Nat, NEW m \in Nat, a <= m PROVE a % (m + 1) = a
BY SMT

\* The bytes of a surface are what its side says, or no size_t can hold them.
LEMMA BytesCover ==
  ASSUME NEW n \in Nat
  PROVE  BytesOf(n) \in Nat /\ (n * 4 * n <= SizeMax => BytesOf(n) >= n * 4 * n)
<1> DEFINE a == n * 4 * n
<1>1. a \in Nat /\ SizeMax \in Nat
  BY WebGraphicsAssumption
<1>2. a % (SizeMax + 1) \in Nat
  BY <1>1
<1>3. a <= SizeMax => a % (SizeMax + 1) = a
  BY <1>1, HeldAsIs
<1>4. BytesOf(n) = a % (SizeMax + 1)
  BY DEF BytesOf
<1> HIDE DEF a
<1>5. BytesOf(n) \in Nat /\ (a <= SizeMax => BytesOf(n) >= a)
  BY <1>1, <1>2, <1>3, <1>4
<1>6. QED
  BY <1>5 DEF a

\* A surface that covers its side.
Covers(s) == s.side * 4 * s.side <= SizeMax => s.bytes >= s.side * 4 * s.side

\* A step that gives one window a surface that covers its side, or touches none.
LEMMA SurfaceStep ==
  ASSUME SurfaceInv, NEW p \in Panes, NEW s \in [side : Nat, bytes : Nat], Covers(s),
         surface' \in {surface, [surface EXCEPT ![p] = s]},
         size' \in [Panes -> Nat]
  PROVE  SurfaceInv'
BY DEF SurfaceInv, SurfaceTypes, PixelsCoverSurface, Covers

LEMMA NoSurfaceCovers == NoSurface \in [side : Nat, bytes : Nat] /\ Covers(NoSurface)
BY DEF NoSurface, Covers

LEMMA MadeSurfaceCovers ==
  ASSUME NEW n \in Nat
  PROVE  [side |-> n, bytes |-> BytesOf(n)] \in [side : Nat, bytes : Nat]
         /\ Covers([side |-> n, bytes |-> BytesOf(n)])
BY BytesCover DEF Covers

LEMMA SurfacesKept ==
  ASSUME SurfaceInv, NEW p \in Panes, NEW n \in Sides, NEW granted \in BOOLEAN,
         OpenPane(p, n) \/ SetPaneSize(p, n, granted)
  PROVE  SurfaceInv'
<1> n \in Nat
  BY WebGraphicsAssumption
<1>1. CASE OpenPane(p, n)
  BY <1>1, SurfaceStep, NoSurfaceCovers DEF OpenPane, SurfaceInv, SurfaceTypes
<1>2. CASE SetPaneSize(p, n, granted)
  BY <1>2, SurfaceStep, MadeSurfaceCovers DEF SetPaneSize, SurfaceInv, SurfaceTypes
<1>3. QED
  BY <1>1, <1>2

\* An exception lasts as long as there is something it excepts.
LEMMA ExceptionsLast ==
  ASSUME NEW leaving, NEW closing, Excepting(leaving, closing),
         NEW c \in {screen', requested'} \ {NoPane}, Excepted(c)
  PROVE  Excepted(c)'
BY DEF Excepted, Excepting

\* The canvas of a window that goes is another's no more than it was: the driver's
\* own is gone, and the page's is abandoned.
LEMMA CloseKeepsScreen ==
  ASSUME ScreenTold, open \subseteq Panes, NEW p \in Panes, ClosePane(p)
  PROVE  ScreenTold'
<1>1. /\ open' = open \ {p} /\ fullscreen' = fullscreen \ {p}
      /\ first' = IF p = first THEN NoPane ELSE first
      /\ screen' = IF screen = p THEN NoPane ELSE screen
      /\ requested' = IF requested = p THEN NoPane ELSE requested
      /\ Excepting(FALSE, p = first)
  BY DEF ClosePane
<1>2. ASSUME NEW c \in {screen', requested'} \ {NoPane} PROVE (Says(c) \/ Excepted(c))'
  <2>1. c \in {screen, requested} \ {NoPane} /\ c # p
    BY <1>1, <1>2
  <2>2. CASE Excepted(c)
    BY <1>1, <1>2, <2>2, ExceptionsLast
  <2>3. CASE Says(c)
    <3>1. PICK q \in open : Canvas(q) = c /\ q \in fullscreen
      BY <2>3 DEF Says
    <3>2. CASE q # p
      <4>1. q = first <=> q = first'
        BY <1>1, <3>2, WebGraphicsAssumption
      <4> QED BY <1>1, <3>1, <3>2, <4>1 DEF Says, Canvas
    <3>3. CASE q = p
      <4>1. p = first /\ c = PageCanvas
        BY <2>1, <3>1, <3>3 DEF Canvas
      <4> QED BY <1>1, <1>2, <4>1 DEF Excepted, Excepting
    <3> QED BY <3>2, <3>3
  <2> QED BY <2>1, <2>2, <2>3 DEF ScreenTold
<1> QED BY <1>1, <1>2 DEF ScreenTold, Excepting

\* A window that is opened takes "#canvas" from none.
LEMMA OpenKeepsScreen ==
  ASSUME ScreenTold, NEW p \in Panes, NEW n, OpenPane(p, n)
  PROVE  ScreenTold'
BY DEF ScreenTold, Excepted, Says, Canvas, OpenPane, screenVars

\* The browser's answer and the user make no other canvas fullscreen than was asked.
LEMMA AnswerKeepsScreen ==
  ASSUME ScreenTold, (\E on \in BOOLEAN : FullscreenAnswered(on)) \/ UserLeaves
  PROVE  ScreenTold'
<1>1. /\ Excepting(FALSE, FALSE) /\ UNCHANGED <<open, first, fullscreen>>
      /\ {screen', requested'} \subseteq {screen, requested, NoPane}
  BY DEF FullscreenAnswered, UserLeaves, paneVars
<1>2. ASSUME NEW c \in {screen', requested'} \ {NoPane} PROVE (Says(c) \/ Excepted(c))'
  <2>1. Says(c) => Says(c)'
    BY <1>1 DEF Says, Canvas
  <2> QED BY <1>1, <1>2, <2>1, ExceptionsLast DEF ScreenTold
<1> QED BY <1>1, <1>2 DEF ScreenTold, Excepting

LEMMA ScreenKept ==
  ASSUME ScreenTold, NEW p \in Panes, NEW on \in BOOLEAN, NEW taken \in BOOLEAN,
         SetPaneFullscreen(p, on, taken)
  PROVE  ScreenTold'
<1>0. open' = open /\ first' = first
  BY DEF SetPaneFullscreen, paneVars
<1>1. CASE ~taken
  BY <1>0, <1>1 DEF SetPaneFullscreen, ScreenTold, Excepted, Says, Canvas
<1>2. CASE taken /\ on
  <2>1. /\ p \in open /\ fullscreen' = fullscreen \cup {p}
        /\ screen' = screen /\ requested' = Canvas(p) /\ Excepting(FALSE, FALSE)
    BY <1>2 DEF SetPaneFullscreen, AskFullscreen
  <2>2. ASSUME NEW c \in {screen', requested'} \ {NoPane} PROVE (Says(c) \/ Excepted(c))'
    <3>1. CASE c = Canvas(p)
      BY <1>0, <2>1, <3>1 DEF Says, Canvas
    <3>2. CASE c = screen
      <4>1. Says(c) => Says(c)'
        BY <1>0, <2>1 DEF Says, Canvas
      <4> QED BY <2>1, <2>2, <3>2, <4>1, ExceptionsLast DEF ScreenTold
    <3> QED BY <2>1, <2>2, <3>1, <3>2
  <2> QED BY <2>1, <2>2 DEF ScreenTold, Excepting
<1>3. CASE taken /\ ~on
  <2>1. screen' = NoPane /\ requested' = requested /\ Excepting(TRUE, FALSE)
    BY <1>3 DEF SetPaneFullscreen, LeaveFullscreen
  <2>2. \A c \in {screen', requested'} \ {NoPane} : overtaken'
    BY <2>1 DEF Excepting
  <2> QED BY <2>1, <2>2 DEF ScreenTold, Excepted, Excepting
<1> QED BY <1>1, <1>2, <1>3

GraphicsInv == ContextInv /\ SurfaceInv /\ ScreenTold

LEMMA SurfaceStutter == SurfaceInv /\ UNCHANGED surfaceVars => SurfaceInv'
BY DEF SurfaceInv, SurfaceTypes, PixelsCoverSurface, surfaceVars

LEMMA ScreenStutter == ScreenTold /\ UNCHANGED <<paneVars, screenVars>> => ScreenTold'
BY DEF ScreenTold, Excepted, Says, Canvas, paneVars, screenVars

LEMMA GraphicsInvStep == GraphicsInv /\ [GraphicsNext]_graphicsVars => GraphicsInv'
<1> SUFFICES ASSUME GraphicsInv, [GraphicsNext]_graphicsVars PROVE GraphicsInv'
  OBVIOUS
<1> USE DEF GraphicsInv
<1>0. open \subseteq Panes
  BY DEF ContextInv, ContextTypes
<1>1. ASSUME NEW p \in Panes, NEW n \in Sides, OpenPane(p, n) PROVE GraphicsInv'
  <2>1. ContextInv' /\ ScreenTold'
    BY <1>0, <1>1, ContextsUnchanged, OpenKeepsScreen DEF OpenPane
  <2>2. QED
    BY <1>1, <2>1, SurfacesKept
<1>2. ASSUME NEW p \in Panes, ClosePane(p) PROVE GraphicsInv'
  <2>1. ContextInv' /\ ScreenTold'
    BY <1>0, <1>2, CloseKeeps, CloseKeepsScreen
  <2>2. surface' = [surface EXCEPT ![p] = NoSurface] /\ size' = [size EXCEPT ![p] = 0]
    BY <1>2 DEF ClosePane
  <2>3. SurfaceInv'
    BY <2>2, SurfaceStep, NoSurfaceCovers DEF SurfaceInv, SurfaceTypes
  <2>4. QED
    BY <2>1, <2>3
<1>3. ASSUME NEW p \in Panes, NEW n \in Sides, NEW granted \in BOOLEAN, SetPaneSize(p, n, granted)
      PROVE  GraphicsInv'
  <2>1. ContextInv' /\ ScreenTold'
    BY <1>0, <1>3, ContextsUnchanged, ScreenStutter DEF SetPaneSize, paneVars
  <2>2. QED
    BY <1>3, <2>1, SurfacesKept
<1>4. ASSUME NEW p \in Panes, GetPaneSurface(p) PROVE GraphicsInv'
  <2>1. ContextInv' /\ ScreenTold'
    BY <1>0, <1>4, ContextsUnchanged, ScreenStutter DEF GetPaneSurface, paneVars
  <2>2. size[p] \in Nat /\ size' = size
        /\ surface' = [surface EXCEPT ![p] = [side |-> size[p], bytes |-> BytesOf(size[p])]]
    BY <1>4 DEF GetPaneSurface, SurfaceInv, SurfaceTypes
  <2>3. SurfaceInv'
    BY <2>2, SurfaceStep, MadeSurfaceCovers DEF SurfaceInv, SurfaceTypes
  <2>4. QED
    BY <2>1, <2>3
<1>5. ASSUME NEW p \in Panes, UpdatePaneSurface(p) PROVE GraphicsInv'
  <2>1. ContextInv'
    BY <1>5, EnsureGLKeeps DEF UpdatePaneSurface, paneVars
  <2>2. QED
    BY <1>5, <2>1, SurfaceStutter, ScreenStutter DEF UpdatePaneSurface
<1>6. ASSUME NEW p \in Panes, DestroyPaneSurface(p) PROVE GraphicsInv'
  <2>1. ContextInv' /\ ScreenTold'
    BY <1>6, DestroySurfaceKeeps, ScreenStutter DEF DestroyPaneSurface
  <2>2. size' = size /\ surface' = [surface EXCEPT ![p] = NoSurface]
    BY <1>6 DEF DestroyPaneSurface
  <2>3. SurfaceInv'
    BY <2>2, SurfaceStep, NoSurfaceCovers DEF SurfaceInv, SurfaceTypes
  <2>4. QED
    BY <2>1, <2>3
<1>7. ASSUME NEW p \in Panes, CreatePaneContext(p) PROVE GraphicsInv'
  BY <1>7, CreateContextKeeps, SurfaceStutter, ScreenStutter DEF CreatePaneContext
<1>8. ASSUME NEW c, MakePaneCurrent(c) PROVE GraphicsInv'
  <2>1. ContextInv'
    BY <1>8 DEF MakePaneCurrent, paneVars, ContextInv, ContextTypes, ContextsNamed, ContextsApart, ReadyPainted
  <2>2. QED
    BY <1>8, <2>1, SurfaceStutter, ScreenStutter DEF MakePaneCurrent
<1>9. ASSUME NEW c, DestroyPaneContext(c) PROVE GraphicsInv'
  BY <1>9, DestroyContextKeeps, SurfaceStutter, ScreenStutter DEF DestroyPaneContext
<1>10. CASE ScreenNext
  <2>1. UNCHANGED <<open, surfaceVars, contextVars>>
    BY <1>10 DEF ScreenNext, SetPaneFullscreen, FullscreenAnswered, UserLeaves, paneVars
  <2>2. ContextInv' /\ SurfaceInv'
    BY <1>0, <2>1, ContextsUnchanged, SurfaceStutter
  <2>3. ScreenTold'
    <3>1. CASE \E p \in Panes, on, taken \in BOOLEAN : SetPaneFullscreen(p, on, taken)
      BY <3>1, ScreenKept
    <3>2. CASE (\E on \in BOOLEAN : FullscreenAnswered(on)) \/ UserLeaves
      BY <3>2, AnswerKeepsScreen
    <3>3. QED
      BY <1>10, <3>1, <3>2 DEF ScreenNext
  <2>4. QED
    BY <2>2, <2>3
<1>11. CASE UNCHANGED graphicsVars
  BY <1>0, <1>11, ContextsUnchanged, SurfaceStutter, ScreenStutter DEF graphicsVars, paneVars
<1>12. QED
  BY <1>1, <1>2, <1>3, <1>4, <1>5, <1>6, <1>7, <1>8, <1>9, <1>10, <1>11
  DEF GraphicsNext, PaneNext, DrawingNext

\* The driver's idea of contexts, of the memory of surfaces and of fullscreen is
\* right in every state, for any number of windows, sizes and contexts.
THEOREM GraphicsAlwaysAgree == GraphicsSpec => []GraphicsAgree
<1>1. GraphicsInit => GraphicsInv
  BY ContextInvInit, SurfaceInvInit, ScreenInit DEF GraphicsInv
<1>2. GraphicsInv => GraphicsAgree
  BY DEF GraphicsInv, ContextInv, SurfaceInv, ScreenTold, GraphicsAgree, NoDeadContext,
         FullscreenTold, Excepted, ContextsNamed, ContextTypes, ReadyPainted
<1>3. QED
  BY <1>1, <1>2, GraphicsInvStep, PTL DEF GraphicsSpec

-----------------------------------------------------------------------------
(* The keyboard. *)

KeyInv ==
  /\ KeysAccounted
  /\ unheard \subseteq held
  /\ NoScancode \notin missed

\* The scancodes of a set of codes.
Of(codes) == {ScancodeFromCode(c) : c \in codes} \ {NoScancode}

\* No two codes have one scancode.
LEMMA CodesApart ==
  ASSUME NEW c, NEW d, ScancodeFromCode(c) = ScancodeFromCode(d), ScancodeFromCode(c) # NoScancode
  PROVE  c = d
<1>1. c \in DOMAIN CodeTable /\ d \in DOMAIN CodeTable /\ CodeTable[c] = CodeTable[d]
  BY DEF ScancodeFromCode
<1>2. QED
  BY <1>1 DEF CodeTable

LEMMA KeyInvInit == KeyInit => KeyInv
BY DEF KeyInit, KeyInv, KeysAccounted

\* What the driver makes of an event of the browser.
LEMMA KeyCbKeeps ==
  ASSUME NEW down \in BOOLEAN, NEW repeated \in BOOLEAN, NEW c, KeyCb(down, repeated, c),
         KeysAccounted, NoScancode \notin missed
  PROVE  LET sc == ScancodeFromCode(c) IN
         /\ keystate' = IF sc = NoScancode THEN keystate
                        ELSE IF down THEN keystate \cup {sc} ELSE keystate \ {sc}
         /\ repeat' # NoScancode => repeat' \in keystate'
<1> DEFINE sc == ScancodeFromCode(c)
<1>1. sc = NoScancode => keystate' = keystate /\ repeat' = repeat
  BY DEF KeyCb, Quiet
<1>2. c = "Process" => sc = NoScancode
  BY DEF ScancodeFromCode, CodeTable
<1>3. CASE sc # NoScancode
  <2>1. \E mods, flags : SendKeyboardKey(down, repeated, sc, mods, flags)
    BY <1>2, <1>3 DEF KeyCb
  <2>2. keystate' = IF down THEN keystate \cup {sc} ELSE keystate \ {sc}
    BY <2>1 DEF SendKeyboardKey
  <2>3. repeat' \in IF down THEN {sc, repeat} ELSE {repeat, NoScancode} \ {sc}
    BY <1>3, <2>1 DEF SendKeyboardKey
  <2>4. QED
    BY <1>3, <2>2, <2>3 DEF KeysAccounted
<1>4. QED
  BY <1>1, <1>3 DEF KeysAccounted

LEMMA PressKeeps == ASSUME KeyInv, NEW c \in Codes, Press(c) PROVE KeyInv'
<1> DEFINE sc == ScancodeFromCode(c)
<1>1. c \notin held /\ held' = held \cup {c}
  BY DEF Press
<1>2. CASE page
  <2>1. KeyCb(TRUE, FALSE, c) /\ missed' = missed \ {sc} /\ unheard' = unheard
    BY <1>2 DEF Press
  <2>2. /\ keystate' = IF sc = NoScancode THEN keystate ELSE keystate \cup {sc}
        /\ repeat' # NoScancode => repeat' \in keystate'
    BY <2>1, KeyCbKeeps DEF KeyInv
  <2>3. held' \ unheard' = (held \ unheard) \cup {c}
    BY <1>1, <2>1 DEF KeyInv
  <2>4. QED
    BY <1>1, <2>1, <2>2, <2>3 DEF KeyInv, KeysAccounted
<1>3. CASE ~page
  <2>1. unheard' = unheard \cup {c} /\ UNCHANGED <<keystate, repeat, missed>>
    BY <1>3 DEF Press, Quiet
  <2>2. held' \ unheard' = held \ unheard
    BY <1>1, <2>1 DEF KeyInv
  <2>3. QED
    BY <1>1, <2>1, <2>2 DEF KeyInv, KeysAccounted
<1>4. QED
  BY <1>2, <1>3

LEMMA AutorepeatKeeps == ASSUME KeyInv, NEW c \in Codes, Autorepeat(c) PROVE KeyInv'
<1> DEFINE sc == ScancodeFromCode(c)
<1>1. c \in held /\ held' = held /\ KeyCb(TRUE, TRUE, c) /\ unheard' = unheard \ {c}
      /\ missed' = missed \ {sc}
  BY DEF Autorepeat
<1>2. /\ keystate' = IF sc = NoScancode THEN keystate ELSE keystate \cup {sc}
      /\ repeat' # NoScancode => repeat' \in keystate'
  BY <1>1, KeyCbKeeps DEF KeyInv
<1>3. held' \ unheard' = (held \ unheard) \cup {c}
  BY <1>1
<1>4. QED
  BY <1>1, <1>2, <1>3 DEF KeyInv, KeysAccounted

\* No other code stands for the key that is released.
LEMMA ReleaseKeeps == ASSUME KeyInv, NEW c \in Codes, Release(c) PROVE KeyInv'
<1> DEFINE sc == ScancodeFromCode(c)
<1>1. c \in held /\ held' = held \ {c} /\ unheard' = unheard \ {c}
  BY DEF Release
<1>2. held' \ unheard' = (held \ unheard) \ {c}
  BY <1>1
<1>3. sc # NoScancode => Of(held' \ unheard') = Of(held \ unheard) \ {sc}
  BY <1>2, CodesApart DEF Of
<1>4. sc = NoScancode => Of(held' \ unheard') = Of(held \ unheard)
  BY <1>2 DEF Of
<1>5. keystate = Of(held \ unheard) \cup missed
  BY DEF KeyInv, KeysAccounted, Of
<1>6. CASE page
  <2>1. KeyCb(FALSE, FALSE, c) /\ missed' = missed \ {sc}
    BY <1>6 DEF Release
  <2>2. /\ keystate' = IF sc = NoScancode THEN keystate ELSE keystate \ {sc}
        /\ repeat' # NoScancode => repeat' \in keystate'
    BY <2>1, KeyCbKeeps DEF KeyInv
  <2>3. keystate' = Of(held' \ unheard') \cup missed'
    BY <1>3, <1>4, <1>5, <2>1, <2>2 DEF KeyInv
  <2>4. QED
    BY <1>1, <2>1, <2>2, <2>3 DEF KeyInv, KeysAccounted, Of
<1>7. CASE ~page
  <2>1. missed' = missed \cup ({sc} \cap keystate) /\ UNCHANGED <<keystate, repeat>>
    BY <1>7 DEF Release, Quiet
  <2>2. sc = NoScancode => sc \notin keystate
    BY <1>5 DEF KeyInv, Of
  <2>3. keystate' = Of(held' \ unheard') \cup missed'
    BY <1>3, <1>4, <1>5, <2>1
  <2>4. QED
    BY <1>1, <2>1, <2>2, <2>3 DEF KeyInv, KeysAccounted, Of
<1>8. QED
  BY <1>6, <1>7

\* Every key the program was told of is forgotten; those it was not stay unheard.
LEMMA ForgetKeeps == ASSUME KeyInv, ForgetKeys PROVE KeyInv'
<1>1. Of(held' \ unheard') = {}
  BY DEF KeyInv, KeysAccounted, ForgetKeys, Of
<1>2. QED
  BY <1>1 DEF KeyInv, KeysAccounted, ForgetKeys, Of

LEMMA KeyInvStep == KeyInv /\ [KeyNext]_keyVars => KeyInv'
<1> SUFFICES ASSUME KeyInv, [KeyNext]_keyVars PROVE KeyInv'
  OBVIOUS
<1>1. CASE \E c \in Codes : Press(c) \/ Autorepeat(c) \/ Release(c)
  BY <1>1, PressKeeps, AutorepeatKeeps, ReleaseKeeps
<1>2. CASE ResetKeyboard \/ KeyboardQuit
  BY <1>2, ForgetKeeps DEF ResetKeyboard, KeyboardQuit
<1>3. CASE UNCHANGED <<held, keystate, repeat, unheard, missed>>
  BY <1>3 DEF KeyInv, KeysAccounted
<1>4. CASE FocusCb \/ SetTextInput \/ (\E l \in {Caps, Num} : ToggleLock(l)) \/ \E mods \in {{}, {Caps}, {Num}} : SetModState(mods)
  BY <1>3, <1>4 DEF FocusCb, SetTextInput, ToggleLock, SetModState, Quiet
<1>5. QED
  BY <1>1, <1>2, <1>3, <1>4 DEF KeyNext, keyVars

\* The keys read as down are those held and told, and those whose release went
\* to another page, for any set of keys.
THEOREM KeysAlwaysAccounted == KeySpec => []KeysAccounted
<1>1. KeyInv => KeysAccounted
  BY DEF KeyInv
<1>2. QED
  BY <1>1, KeyInvInit, KeyInvStep, PTL DEF KeySpec

-----------------------------------------------------------------------------
(* What a key event means.                                                   *)

\* key_table, row by row.
LEMMA KeyRows ==
  /\ DOMAIN KeyTable = {"A", "D1", "KP_1", "RETURN", "CAPSLOCK", "LSHIFT", "RSHIFT", "LCTRL", "RCTRL"}
  /\ KeyTable["A"].base = "a" /\ KeyTable["A"].shifted = "A"
  /\ KeyTable["D1"].base = "1" /\ KeyTable["D1"].shifted = "!"
  /\ KeyTable["KP_1"].base = "1" /\ KeyTable["KP_1"].shifted = "1"
  /\ \A sc \in {"RETURN", "CAPSLOCK", "LSHIFT", "RSHIFT", "LCTRL", "RCTRL"} :
       KeyTable[sc].base = NoText /\ KeyTable[sc].shifted = NoText
<1>1. DOMAIN KeyTable = {"A", "D1", "KP_1", "RETURN", "CAPSLOCK", "LSHIFT", "RSHIFT", "LCTRL", "RCTRL"}
  BY DEF KeyTable
<1>2. /\ KeyTable["A"].base = "a" /\ KeyTable["A"].shifted = "A"
      /\ KeyTable["D1"].base = "1" /\ KeyTable["D1"].shifted = "!"
      /\ KeyTable["KP_1"].base = "1" /\ KeyTable["KP_1"].shifted = "1"
  BY DEF KeyTable, Row
<1>3. \A sc \in {"RETURN", "CAPSLOCK", "LSHIFT", "RSHIFT", "LCTRL", "RCTRL"} :
        KeyTable[sc].base = NoText /\ KeyTable[sc].shifted = NoText
  BY DEF KeyTable, Row
<1> QED BY <1>1, <1>2, <1>3

LEMMA ScancodeRows ==
  Scancodes = {"A", "D1", "KP_1", "RETURN", "CAPSLOCK", "PRINTSCREEN", "LSHIFT", "RSHIFT", "LCTRL", "RCTRL"}
BY DEF Scancodes, CodeTable

\* The character of a key is one of its two, and none for a key without.
LEMMA CharacterOf ==
  ASSUME NEW sc \in DOMAIN KeyTable, NEW mod, NEW shifted \in BOOLEAN
  PROVE  /\ sc = "A" => Character(KeyTable[sc], mod, shifted) \in {"a", "A"}
         /\ sc = "D1" => Character(KeyTable[sc], mod, shifted) \in {"1", "!"}
         /\ sc = "KP_1" => Character(KeyTable[sc], mod, shifted) = "1"
         /\ sc \notin {"A", "D1", "KP_1"} => Character(KeyTable[sc], mod, shifted) = NoText
         /\ Caps \notin mod => Character(KeyTable[sc], mod, shifted)
                                 = IF shifted THEN KeyTable[sc].shifted ELSE KeyTable[sc].base
<1>1. Character(KeyTable[sc], mod, shifted) \in {KeyTable[sc].base, KeyTable[sc].shifted}
  BY DEF Character
<1>2. Caps \notin mod => Character(KeyTable[sc], mod, shifted)
                           = IF shifted THEN KeyTable[sc].shifted ELSE KeyTable[sc].base
  BY DEF Character
<1> QED BY <1>1, <1>2, KeyRows

LEMMA LeadsBack ==
  ASSUME NEW sc \in Scancodes, NEW mod
  PROVE  GetScancodeFromKey(Resolve(sc, mod).key) = IF sc = "KP_1" THEN "D1" ELSE sc
<1>1. CASE sc \notin DOMAIN KeyTable
  <2>1. Resolve(sc, mod).key = <<"scancode", sc>> /\ sc # "KP_1"
    BY <1>1, KeyRows DEF Resolve
  <2> QED BY <2>1 DEF GetScancodeFromKey
<1>2. CASE sc \in DOMAIN KeyTable
  <2> DEFINE ch == Character(KeyTable[sc], mod, "SHIFT" \in GroupsOf(mod))
  <2>1. /\ sc = "A" => ch \in {"a", "A"}
        /\ sc = "D1" => ch \in {"1", "!"}
        /\ sc = "KP_1" => ch = "1"
        /\ sc \notin {"A", "D1", "KP_1"} => ch = NoText
    <3>1. ("SHIFT" \in GroupsOf(mod)) \in BOOLEAN
      OBVIOUS
    <3> QED BY <1>2, <3>1, CharacterOf
  <2>2. Resolve(sc, mod).key = IF ch # NoText THEN <<"char", ch>>
                               ELSE IF sc = "RETURN" THEN <<"char", "return">> ELSE <<"scancode", sc>>
    BY <1>2 DEF Resolve
  <2> HIDE DEF ch
  <2>3. CASE sc \in {"A", "D1", "KP_1"}
    <3>1. Resolve(sc, mod).key = <<"char", ch>> /\ ch \in {"a", "A", "1", "!"}
      BY <2>1, <2>2, <2>3 DEF NoText
    <3> DEFINE at == {s \in {"A", "D1"} : ch \in {KeyTable[s].base, KeyTable[s].shifted}}
               found == IF ch \in {"a", "A"} THEN "A" ELSE "D1"
    <3>2. found \in {"A", "D1"} /\ \A s \in {"A", "D1"} :
            ch \in {KeyTable[s].base, KeyTable[s].shifted} <=> s = found
      BY <3>1, KeyRows
    <3>3. GetScancodeFromKey(<<"char", ch>>) = CHOOSE s \in {"A", "D1"} : ch \in {KeyTable[s].base, KeyTable[s].shifted}
      BY <3>1, <3>2 DEF GetScancodeFromKey
    <3>4. (CHOOSE s \in {"A", "D1"} : ch \in {KeyTable[s].base, KeyTable[s].shifted}) = found
      BY <3>2
    <3> QED BY <2>1, <2>3, <3>1, <3>3, <3>4
  <2>4. CASE sc = "RETURN"
    BY <2>1, <2>2, <2>4 DEF GetScancodeFromKey
  <2>5. CASE sc \notin {"A", "D1", "KP_1", "RETURN"}
    BY <2>1, <2>2, <2>5 DEF GetScancodeFromKey
  <2> QED BY <2>3, <2>4, <2>5
<1> QED BY <1>1, <1>2

\* The modifiers key_cb makes of what the browser reports are those, and no lock.
LEMMA ModsOfFlags ==
  ASSUME NEW side, NEW flags \in SUBSET Groups, NEW mod, mod = {side} \X flags
  PROVE  GroupsOf(mod) = flags /\ (side # "lock" => Caps \notin mod /\ Num \notin mod)
<1>1. \A b \in mod : b[1] = side /\ b[2] \in flags
  OBVIOUS
<1>2. \A f \in flags : <<side, f>> \in mod /\ <<side, f>>[2] = f
  OBVIOUS
<1>3. GroupsOf(mod) = flags
  BY <1>1, <1>2 DEF GroupsOf
<1>4. Caps[1] = "lock" /\ Num[1] = "lock"
  BY DEF Caps, Num
<1> QED BY <1>1, <1>3, <1>4

\* A key without characters has no text, whatever is held or on.
LEMMA NoTextOf ==
  ASSUME NEW sc \in Scancodes \ {"A", "D1", "KP_1"}, NEW mod, NEW flags, NEW on
  PROVE  Resolve(sc, mod).text = NoText /\ TypedText(sc, flags, on) = NoText
<1>1. CASE sc \notin DOMAIN KeyTable
  BY <1>1 DEF Resolve, TypedText
<1>2. CASE sc \in DOMAIN KeyTable
  <2>1. \A m : \A shifted \in BOOLEAN : Character(KeyTable[sc], m, shifted) = NoText
    BY <1>2, CharacterOf
  <2>2. /\ ("SHIFT" \in GroupsOf(mod)) \in BOOLEAN /\ ("SHIFT" \in flags) \in BOOLEAN
    OBVIOUS
  <2> QED BY <1>2, <2>1, <2>2 DEF Resolve, TypedText
<1> QED BY <1>1, <1>2

\* Where no lock that is on concerns a key, its text is the same without the locks.
LEMMA TextOf ==
  ASSUME NEW sc \in Scancodes, NEW flags \in SUBSET Groups, NEW mod, NEW on,
         GroupsOf(mod) = flags, Caps \notin mod, Num \notin mod, ~LockMatters(sc, on)
  PROVE  Resolve(sc, mod).text = TypedText(sc, flags, on)
<1>1. CASE sc \notin DOMAIN KeyTable
  BY <1>1 DEF Resolve, TypedText
<1>2. CASE sc \in DOMAIN KeyTable
  <2> DEFINE shifted == "SHIFT" \in flags
             ch == Character(KeyTable[sc], mod, shifted)
             bare == sc \in Keypad \/ flags \cap {"CTRL", "ALT", "GUI"} # {}
  <2>1. Resolve(sc, mod).text = IF bare THEN NoText ELSE ch
    BY <1>2 DEF Resolve
  <2>2. Character(KeyTable[sc], on, shifted) = ch
    BY <1>2 DEF Character, LockMatters
  <2>3. TypedText(sc, flags, on) = IF bare THEN NoText ELSE ch
    BY <1>2, <2>2 DEF TypedText, LockMatters
  <2> HIDE DEF bare, ch
  <2> QED BY <2>1, <2>3
<1> QED BY <1>1, <1>2

LEMMA ModifierKeys ==
  ASSUME NEW sc PROVE ModifierBit(sc) \in SUBSET ({"L", "R"} \X Groups)
BY DEF ModifierBit, Groups

LEMMA FlagsAreGroups == ASSUME NEW keys PROVE Flags(keys) \in SUBSET Groups
BY DEF Flags, GroupsOf

\* An event key_cb sends means what the browser told it of.
LEMMA SentMeans ==
  ASSUME NEW down \in BOOLEAN, NEW repeated, NEW sc \in Scancodes, NEW side \in {"L", "R"},
         NEW flags \in SUBSET Groups, typing \in BOOLEAN,
         SendKeyboardKey(down, repeated, sc, {side} \X flags, flags)
  PROVE  KeysMean'
<1> DEFINE mods == {side} \X flags
           mod == IF down THEN mods \cup ModifierBit(sc) ELSE mods \ ModifierBit(sc)
           r == Resolve(sc, mod)
<1>1. event' = [down |-> down, scancode |-> sc, mod |-> mod, flags |-> flags, locks |-> locks,
                key |-> r.key, typing |-> typing,
                text |-> IF down /\ typing THEN r.text ELSE NoText]
  BY DEF SendKeyboardKey
<1>2. /\ event'.down = down /\ event'.scancode = sc /\ event'.mod = mod /\ event'.flags = flags
      /\ event'.key = r.key /\ event'.typing = typing /\ event'.locks = locks
      /\ event'.text = IF down /\ typing THEN r.text ELSE NoText
  BY <1>1
<1>3. KeycodeLeadsBack'
  <2>1. GetScancodeFromKey(r.key) = IF sc = "KP_1" THEN "D1" ELSE sc
    BY LeadsBack
  <2> HIDE DEF r
  <2> QED BY <1>2, <2>1 DEF KeycodeLeadsBack
<1>4. ModifierBit(sc) = {} => GroupsOf(mod) = flags /\ Caps \notin mod /\ Num \notin mod
  <2> SUFFICES ASSUME ModifierBit(sc) = {}
               PROVE  GroupsOf(mod) = flags /\ Caps \notin mod /\ Num \notin mod
    OBVIOUS
  <2>1. mod = {side} \X flags
    OBVIOUS
  <2> HIDE DEF mod
  <2> QED BY <2>1, ModsOfFlags
<1>5. ~LockMatters(sc, locks) => r.text = TypedText(sc, flags, locks)
  <2> HIDE DEF mod
  <2>1. CASE sc \in {"A", "D1", "KP_1"}
    <3>1. ModifierBit(sc) = {}
      BY <2>1 DEF ModifierBit
    <3> QED BY <1>4, <3>1, TextOf
  <2>2. CASE sc \notin {"A", "D1", "KP_1"}
    BY <2>2, NoTextOf
  <2> QED BY <2>1, <2>2
<1>6. TextAsHeld'
  <2> HIDE DEF mod, r
  <2> QED BY <1>2, <1>4, <1>5 DEF TextAsHeld, Typing, TextIsTyped
<1> QED BY <1>3, <1>6 DEF KeysMean

MeaningInv == KeysMean /\ typing \in BOOLEAN

LEMMA NothingMeans == ASSUME event' = NoEvent PROVE KeysMean'
BY DEF KeysMean, TextAsHeld, Typing, KeycodeLeadsBack

LEMMA KeyCbMeans ==
  ASSUME NEW down \in BOOLEAN, NEW repeated \in BOOLEAN, NEW c, KeyCb(down, repeated, c), typing \in BOOLEAN
  PROVE  KeysMean'
<1> DEFINE sc == ScancodeFromCode(c)
           side == IF Right(c) THEN "R" ELSE "L"
<1>1. CASE c = "Process" \/ sc = NoScancode
  BY <1>1, NothingMeans DEF KeyCb, Quiet
<1>2. CASE ~(c = "Process" \/ sc = NoScancode)
  <2>1. SendKeyboardKey(down, repeated, sc, {side} \X Flags(held'), Flags(held'))
    BY <1>2 DEF KeyCb
  <2>2. sc \in Scancodes
    BY <1>2 DEF ScancodeFromCode, Scancodes
  <2>3. side \in {"L", "R"} /\ Flags(held') \in SUBSET Groups
    BY FlagsAreGroups
  <2> HIDE DEF sc, side
  <2> QED BY <2>1, <2>2, <2>3, SentMeans
<1> QED BY <1>1, <1>2

LEMMA MeaningStep == MeaningInv /\ [KeyNext]_keyVars => MeaningInv'
<1> SUFFICES ASSUME MeaningInv, [KeyNext]_keyVars PROVE MeaningInv'
  OBVIOUS
<1>b. TRUE \in BOOLEAN /\ FALSE \in BOOLEAN /\ typing \in BOOLEAN
  BY DEF MeaningInv
<1>1. ASSUME NEW c \in Codes, Press(c) \/ Autorepeat(c) \/ Release(c) PROVE MeaningInv'
  <2>1. \/ \E down \in BOOLEAN, repeated \in BOOLEAN : KeyCb(down, repeated, c)
        \/ event' = NoEvent
    BY <1>1, <1>b DEF Press, Autorepeat, Release, Quiet
  <2>2. KeysMean'
    BY <1>b, <2>1, KeyCbMeans, NothingMeans
  <2>3. typing' = typing
    BY <1>1 DEF Press, Autorepeat, Release
  <2> QED BY <1>b, <2>2, <2>3 DEF MeaningInv
<1>2. CASE \/ FocusCb \/ ResetKeyboard \/ KeyboardQuit \/ SetTextInput
           \/ \E l \in {Caps, Num} : ToggleLock(l)
           \/ \E mods \in {{}, {Caps}, {Num}} : SetModState(mods)
  <2>1. event' = NoEvent
    BY <1>2 DEF FocusCb, ToggleLock, ResetKeyboard, KeyboardQuit, SetTextInput, SetModState, ForgetKeys, Quiet
  <2>2. typing' = typing \/ typing' = FALSE \/ typing' = ~typing
    BY <1>2 DEF FocusCb, ToggleLock, ResetKeyboard, KeyboardQuit, SetTextInput, SetModState
  <2>3. typing' \in BOOLEAN
    BY <1>b, <2>2
  <2> QED BY <2>1, <2>3, NothingMeans DEF MeaningInv
<1>3. CASE UNCHANGED keyVars
  <2>1. event' = event /\ typing' = typing
    BY <1>3 DEF keyVars
  <2> QED BY <1>b, <2>1 DEF MeaningInv, KeysMean, TextAsHeld, Typing, TextIsTyped, KeycodeLeadsBack
<1> QED BY <1>1, <1>2, <1>3 DEF KeyNext

(* An ordinary key is typed as the modifiers held when it is told have it,    *)
(* whatever was lost or set before, if no lock that is on concerns it, and    *)
(* its keycode leads back to its key, for any set of keys (key_cb, resolve,   *)
(* SDL_GetScancodeFromKey).                                                   *)
THEOREM KeysAlwaysMean == KeySpec => []KeysMean
<1>1. KeyInit => MeaningInv
  BY DEF KeyInit, MeaningInv, KeysMean, TextAsHeld, Typing, KeycodeLeadsBack
<1>2. MeaningInv => KeysMean
  BY DEF MeaningInv
<1> QED BY <1>1, <1>2, MeaningStep, PTL DEF KeySpec

-----------------------------------------------------------------------------
(* The pointer: the inductive invariant.                                     *)

\* Each window is there once.
ListedOnce ==
  /\ windows \in Seq(Windows)
  /\ \A i, j \in DOMAIN windows : windows[i] = windows[j] => i = j

\* A window that lives has a canvas, and the canvas created next is beyond
\* them all.
CanvasesApart ==
  /\ canvas \in [Windows -> Canvases \cup {NoCanvas}] /\ next_canvas_id \in Canvases
  /\ \A w \in Live : canvas[w] \in Canvases /\ canvas[w] <= next_canvas_id
  /\ \A v, w \in Live : canvas[v] = canvas[w] => v = w

\* While the table has room, every canvas of a window has its callbacks.
SelectorsKept ==
  /\ selectors \in Seq(Canvases) /\ Len(selectors) <= SelectorSlots
  /\ Len(selectors) < SelectorSlots => \A w \in Live : canvas[w] \in ToSet(selectors)

FocusLives ==
  /\ focus \in [keyboard : Windows \cup {NoWindow}, mouse : Windows \cup {NoWindow}, mode : Windows \cup {NoWindow}]
  /\ {focus.keyboard, focus.mouse, focus.mode} \subseteq Live \cup {NoWindow}
  /\ hidden \subseteq Live

\* The lock is on a canvas, on an element of the page or on none.
LockHeard ==
  /\ lock \in Canvases \cup {NoCanvas, PageElement} /\ asked \in Canvases \cup {NoCanvas}
  /\ changed \in BOOLEAN
  /\ pointer_locked \subseteq Live /\ inherited \subseteq Live
  /\ LockAgrees

\* The position is the one of the event handled last, 0 under a lock.
PositionKept ==
  /\ pointer \in Places
  /\ last.canvas # NoCanvas =>
       /\ last.locked \in BOOLEAN /\ last.at \in Places
       /\ mouse_x = IF last.locked THEN 0 ELSE last.at

PointerInv == ListedOnce /\ CanvasesApart /\ SelectorsKept /\ FocusLives /\ LockHeard /\ PositionKept /\ MotionTold

LEMMA RemoveAtProperties ==
  ASSUME NEW S, NEW s \in Seq(S), NEW i \in DOMAIN s
  PROVE  /\ RemoveAt(s, i) \in Seq(S) /\ Len(RemoveAt(s, i)) = Len(s) - 1
         /\ \A k \in 1..Len(s) - 1 : RemoveAt(s, i)[k] = IF k < i THEN s[k] ELSE s[k + 1]
<1> DEFINE n == Len(s)
           l == SubSeq(s, 1, i - 1)
           r == SubSeq(s, i + 1, n)
<1>1. n \in Nat /\ i \in 1..n /\ i \in Int /\ \A k \in 1..n : s[k] \in S
  BY LenProperties, ElementOfSeq
<1> HIDE DEF n
<1>2. l \in Seq(S) /\ Len(l) = i - 1 /\ \A k \in 1..i - 1 : l[k] = s[k]
  <2>1. /\ l \in Seq(S) /\ Len(l) = IF 1 <= i - 1 THEN i - 1 - 1 + 1 ELSE 0
        /\ \A k \in 1..i - 1 - 1 + 1 : l[k] = s[1 + k - 1]
    BY <1>1, SubSeqProperties
  <2> HIDE DEF l
  <2>2. i - 1 - 1 + 1 = i - 1 /\ (IF 1 <= i - 1 THEN i - 1 - 1 + 1 ELSE 0) = i - 1
    BY <1>1
  <2>3. \A k \in 1..i - 1 : 1 + k - 1 = k
    BY <1>1
  <2> QED BY <2>1, <2>2, <2>3
<1>3. r \in Seq(S) /\ Len(r) = n - i /\ \A k \in 1..n - i : r[k] = s[i + k]
  <2>1. /\ r \in Seq(S) /\ Len(r) = IF i + 1 <= n THEN n - (i + 1) + 1 ELSE 0
        /\ \A k \in 1..n - (i + 1) + 1 : r[k] = s[i + 1 + k - 1]
    <3>1. i + 1 \in Int /\ n \in Int /\ \A k \in i + 1..n : s[k] \in S
      BY <1>1
    <3> QED BY <3>1, SubSeqProperties
  <2> HIDE DEF r
  <2>2. n - (i + 1) + 1 = n - i /\ (IF i + 1 <= n THEN n - (i + 1) + 1 ELSE 0) = n - i
    BY <1>1
  <2>3. \A k \in 1..n - i : i + 1 + k - 1 = i + k
    BY <1>1
  <2> QED BY <2>1, <2>2, <2>3
<1>4. RemoveAt(s, i) = l \o r
  BY DEF RemoveAt, n
<1> HIDE DEF l, r
<1>5. /\ l \o r \in Seq(S) /\ Len(l \o r) = Len(l) + Len(r)
      /\ \A k \in 1..Len(l) + Len(r) : (l \o r)[k] = IF k <= Len(l) THEN l[k] ELSE r[k - Len(l)]
  BY <1>2, <1>3, ConcatProperties
<1> DEFINE all == l \o r
<1> HIDE DEF all
<1>6. Len(l) + Len(r) = n - 1
  BY <1>1, <1>2, <1>3
<1>7. ASSUME NEW k \in 1..n - 1 PROVE all[k] = IF k < i THEN s[k] ELSE s[k + 1]
  <2>1. CASE k < i
    <3>1. k \in 1..i - 1 /\ k <= i - 1
      BY <1>1, <2>1
    <3> QED BY <1>2, <1>5, <1>6, <2>1, <3>1 DEF all
  <2>2. CASE ~(k < i)
    <3>1. k - (i - 1) \in 1..n - i /\ ~(k <= i - 1) /\ i + (k - (i - 1)) = k + 1
      BY <1>1, <2>2
    <3> QED BY <1>2, <1>3, <1>5, <1>6, <2>2, <3>1 DEF all
  <2> QED BY <2>1, <2>2
<1> QED BY <1>4, <1>5, <1>6, <1>7 DEF all, n

\* The list with one window more,
LEMMA Listed ==
  ASSUME ListedOnce, NEW w \in Windows, w \notin Live, windows' = <<w>> \o windows
  PROVE  /\ windows' \in Seq(Windows) /\ Live' = Live \cup {w}
         /\ \A i, j \in DOMAIN windows' : windows'[i] = windows'[j] => i = j
<1> DEFINE n == Len(windows)
           one == <<w>>
           more == one \o windows
<1>1. one \in Seq(Windows) /\ Len(one) = 1 /\ one[1] = w
  OBVIOUS
<1>2. windows \in Seq(Windows) /\ n \in Nat /\ DOMAIN windows = 1..n
  BY LenProperties DEF ListedOnce
<1> HIDE DEF one
<1>3. /\ more \in Seq(Windows) /\ Len(more) = Len(one) + Len(windows)
      /\ \A i \in 1..Len(one) + Len(windows) : more[i] = IF i <= Len(one) THEN one[i] ELSE windows[i - Len(one)]
  BY <1>1, <1>2, ConcatProperties
<1>m. windows' = more
  BY DEF one
<1> HIDE DEF n, more
<1>4. Len(more) = n + 1 /\ \A i \in 1..n + 1 : more[i] = IF i <= 1 THEN w ELSE windows[i - 1]
  <2>1. Len(one) + Len(windows) = n + 1
    BY <1>1, <1>2 DEF n
  <2>2. \A i \in 1..n + 1 : i <= 1 => i = 1
    BY <1>2
  <2> QED BY <1>1, <1>3, <2>1, <2>2
<1>5. DOMAIN more = 1..n + 1
  BY <1>3, <1>4, LenProperties
<1>6. \A i \in 1..n + 1 : \/ i = 1 /\ more[i] = w
                          \/ i - 1 \in 1..n /\ more[i] = windows[i - 1]
  BY <1>2, <1>4
<1>7. ASSUME NEW i \in 1..n PROVE windows[i] \in Live
  BY <1>2 DEF Live, ToSet
<1>8. ASSUME NEW i \in 1..n PROVE i + 1 \in 1..n + 1 /\ more[i + 1] = windows[i]
  BY <1>2, <1>4
<1>9. 1 \in 1..n + 1 /\ more[1] = w
  BY <1>2, <1>4
<1>10. Live' = {more[i] : i \in 1..n + 1} /\ Live = {windows[i] : i \in 1..n}
  BY <1>m, <1>2, <1>5 DEF Live, ToSet
<1>11. Live' = Live \cup {w}
  BY <1>6, <1>8, <1>9, <1>10
<1>12. ASSUME NEW i \in 1..n + 1, NEW j \in 1..n + 1, more[i] = more[j] PROVE i = j
  <2>1. CASE i = 1 /\ more[i] = w
    BY <1>6, <1>7, <1>12, <2>1
  <2>2. CASE i - 1 \in 1..n /\ more[i] = windows[i - 1]
    <3>1. CASE j = 1 /\ more[j] = w
      BY <1>7, <1>12, <2>2, <3>1
    <3>2. CASE j - 1 \in 1..n /\ more[j] = windows[j - 1]
      <4>1. i - 1 = j - 1
        BY <1>2, <1>12, <2>2, <3>2 DEF ListedOnce
      <4> QED BY <1>2, <4>1
    <3> QED BY <1>6, <3>1, <3>2
  <2> QED BY <1>6, <2>1, <2>2
<1> QED BY <1>m, <1>3, <1>5, <1>11, <1>12

\* and with one less.
LEMMA Unlisted ==
  ASSUME ListedOnce, NEW i \in DOMAIN windows, windows' = RemoveAt(windows, i)
  PROVE  /\ windows' \in Seq(Windows) /\ Live' = Live \ {windows[i]}
         /\ \A j, k \in DOMAIN windows' : windows'[j] = windows'[k] => j = k
<1> DEFINE n == Len(windows)
           less == RemoveAt(windows, i)
<1>1. /\ windows \in Seq(Windows) /\ n \in Nat /\ DOMAIN windows = 1..n
      /\ \A j, k \in 1..n : windows[j] = windows[k] => j = k
  BY LenProperties DEF ListedOnce
<1>2. /\ less \in Seq(Windows) /\ Len(less) = n - 1
      /\ \A k \in 1..n - 1 : less[k] = IF k < i THEN windows[k] ELSE windows[k + 1]
  BY <1>1, RemoveAtProperties
<1>3. windows' = less
  OBVIOUS
<1> HIDE DEF less, n
<1>4. DOMAIN less = 1..n - 1
  BY <1>2, LenProperties
<1> DEFINE was(k) == IF k < i THEN k ELSE k + 1
<1>5. ASSUME NEW k \in 1..n - 1 PROVE was(k) \in 1..n /\ was(k) # i /\ less[k] = windows[was(k)]
  BY <1>1, <1>2
<1>6. ASSUME NEW j \in 1..n, j # i PROVE \E k \in 1..n - 1 : was(k) = j
  <2>1. CASE j < i
    <3>1. j \in 1..n - 1 /\ was(j) = j
      BY <1>1, <2>1
    <3> QED BY <3>1
  <2>2. CASE ~(j < i)
    <3>1. j - 1 \in 1..n - 1 /\ was(j - 1) = j
      BY <1>1, <1>6, <2>2
    <3> QED BY <3>1
  <2> QED BY <2>1, <2>2
<1>7. ASSUME NEW j \in 1..n - 1, NEW k \in 1..n - 1, less[j] = less[k] PROVE j = k
  <2>1. was(j) = was(k)
    BY <1>1, <1>5, <1>7
  <2> QED BY <1>1, <2>1
<1> HIDE DEF was
<1>8. Live' = {less[k] : k \in 1..n - 1} /\ Live = {windows[k] : k \in 1..n}
  BY <1>1, <1>3, <1>4 DEF Live, ToSet
<1>9. ASSUME NEW k \in 1..n - 1 PROVE less[k] \in Live \ {windows[i]}
  BY <1>1, <1>5, <1>8
<1>10. ASSUME NEW w \in Live \ {windows[i]} PROVE w \in Live'
  <2>1. PICK j \in 1..n : w = windows[j]
    BY <1>8
  <2>2. PICK k \in 1..n - 1 : was(k) = j
    BY <1>6, <2>1
  <2> QED BY <1>5, <1>8, <2>1, <2>2
<1>11. Live' = Live \ {windows[i]}
  BY <1>8, <1>9, <1>10
<1> QED BY <1>2, <1>3, <1>4, <1>7, <1>11

-----------------------------------------------------------------------------
(* The pointer: every step.                                                  *)

LEMMA PointerInvInit == PointerInit => PointerInv
<1> SUFFICES ASSUME PointerInit PROVE PointerInv
  OBVIOUS
<1>1. Live = {} /\ windows = <<>>
  BY DEF PointerInit, Live, ToSet
<1>2. ListedOnce
  BY <1>1, EmptySeq DEF ListedOnce
<1>3. CanvasesApart
  BY <1>1, WebPointerAssumption DEF PointerInit, CanvasesApart, Canvases
<1>4. SelectorsKept
  BY <1>1, EmptySeq, WebPointerAssumption DEF PointerInit, SelectorsKept
<1>5. FocusLives
  BY DEF PointerInit, FocusLives
<1>6. LockHeard
  <2>1. lock = NoCanvas /\ asked = NoCanvas /\ changed = FALSE /\ pointer_locked = {} /\ inherited = {}
    BY DEF PointerInit
  <2>2. changed \in BOOLEAN
    BY <2>1
  <2> QED BY <1>1, <2>1, <2>2 DEF LockHeard, LockAgrees
<1>7. PositionKept
  BY WebPointerAssumption DEF PointerInit, PositionKept, NoLast, Places
<1>8. MotionTold
  BY DEF PointerInit, MotionTold, NoMotion
<1> QED BY <1>2, <1>3, <1>4, <1>5, <1>6, <1>7, <1>8 DEF PointerInv

LEMMA NothingTold == ASSUME motion' = NoMotion PROVE MotionTold'
BY DEF MotionTold, NoMotion

LEMMA LiveWindows == ASSUME ListedOnce PROVE Live \subseteq Windows /\ Live = {windows[i] : i \in DOMAIN windows}
<1>1. \A i \in DOMAIN windows : windows[i] \in Windows
  BY LenProperties DEF ListedOnce
<1> QED BY <1>1 DEF Live, ToSet

\* What a canvas has callbacks for stays, and the new one joins while there is room.
LEMMA CallbacksRegistered ==
  ASSUME SelectorsKept, NEW c \in Canvases, RegisterInputCallbacks(c)
  PROVE  /\ selectors' \in Seq(Canvases) /\ Len(selectors') <= SelectorSlots
         /\ Len(selectors') < SelectorSlots =>
              /\ Len(selectors) < SelectorSlots /\ c \in ToSet(selectors')
              /\ ToSet(selectors) \subseteq ToSet(selectors')
<1> DEFINE n == Len(selectors)
           more == Append(selectors, c)
<1>1. /\ selectors \in Seq(Canvases) /\ n \in Nat /\ n <= SelectorSlots /\ SelectorSlots \in Nat
      /\ DOMAIN selectors = 1..n
  BY LenProperties, WebPointerAssumption DEF SelectorsKept
<1>2. /\ more \in Seq(Canvases) /\ Len(more) = n + 1
      /\ \A i \in 1..n : more[i] = selectors[i]
      /\ more[n + 1] = c
  BY <1>1, AppendProperties
<1> HIDE DEF more
<1>3. DOMAIN more = 1..n + 1
  BY <1>2, LenProperties
<1>4. c \in ToSet(more) /\ ToSet(selectors) \subseteq ToSet(more)
  <2>1. n + 1 \in 1..n + 1 /\ \A i \in 1..n : i \in 1..n + 1
    BY <1>1
  <2> QED BY <1>1, <1>2, <1>3, <2>1 DEF ToSet
<1>5. CASE n < SelectorSlots
  <2>1. selectors' = more
    BY <1>5 DEF RegisterInputCallbacks, more
  <2> QED BY <1>1, <1>2, <1>4, <1>5, <2>1
<1>6. CASE ~(n < SelectorSlots)
  <2>1. selectors' = selectors
    BY <1>6 DEF RegisterInputCallbacks
  <2> QED BY <1>1, <1>6, <2>1
<1> QED BY <1>5, <1>6

LEMMA CreateWindowKeeps ==
  ASSUME PointerInv, NEW w \in Windows, NEW shown \in BOOLEAN, CreateWindow(w, shown) PROVE PointerInv'
<1> DEFINE c == CanvasOfNewWindow
<1>1. /\ w \notin Live /\ c \in Canvases /\ windows' = <<w>> \o windows
      /\ canvas' = [canvas EXCEPT ![w] = c]
      /\ next_canvas_id' = IF c = 0 THEN next_canvas_id ELSE c
      /\ RegisterInputCallbacks(c)
      /\ inherited' = IF lock \in {c, PageElement} THEN inherited \cup {w} ELSE inherited
      /\ motion' = NoMotion
      /\ UNCHANGED <<relative, pointer_locked, lock, asked, changed, pointer, mouse_x, last>>
  BY DEF CreateWindow
<1>2. /\ focus' = [focus EXCEPT !.keyboard = w, !.mouse = w] \/ focus' = focus
      /\ hidden' \subseteq hidden \cup {w}
  BY DEF CreateWindow
<1>3. /\ ListedOnce /\ CanvasesApart /\ SelectorsKept /\ FocusLives /\ LockHeard /\ PositionKept
      /\ Live \subseteq Windows
  BY LiveWindows DEF PointerInv
<1>4. /\ windows' \in Seq(Windows) /\ Live' = Live \cup {w}
      /\ \A i, j \in DOMAIN windows' : windows'[i] = windows'[j] => i = j
  BY <1>1, <1>3, Listed
<1>5. /\ canvas' \in [Windows -> Canvases \cup {NoCanvas}] /\ canvas'[w] = c
      /\ \A v \in Windows : v # w => canvas'[v] = canvas[v]
  BY <1>1, <1>3 DEF CanvasesApart
<1>6. ListedOnce'
  BY <1>4 DEF ListedOnce
<1>7. next_canvas_id' \in Canvases /\ c <= next_canvas_id'
      /\ \A v \in Live : canvas[v] < c /\ canvas[v] <= next_canvas_id'
  <2>1. CASE windows = <<>>
    <3>1. Live = {}
      BY <2>1 DEF Live, ToSet
    <3>2. c = 0
      BY <2>1 DEF CanvasOfNewWindow
    <3> HIDE DEF c
    <3> QED BY <1>1, <1>3, <3>1, <3>2 DEF CanvasesApart, Canvases
  <2>2. CASE windows # <<>>
    <3>1. c = next_canvas_id + 1
      BY <2>2 DEF CanvasOfNewWindow
    <3> HIDE DEF c
    <3>2. c # 0 /\ next_canvas_id \in Nat /\ c \in Nat
      BY <1>3, <3>1, WebPointerAssumption DEF CanvasesApart, Canvases
    <3>3. \A v \in Live : canvas[v] \in Nat /\ canvas[v] <= next_canvas_id
      BY <1>3, WebPointerAssumption DEF CanvasesApart, Canvases
    <3> QED BY <1>1, <3>1, <3>2, <3>3
  <2> QED BY <2>1, <2>2
<1> HIDE DEF c
<1>8. c \in Nat /\ \A v \in Live : canvas[v] \in Nat
  BY <1>1, <1>3, WebPointerAssumption DEF CanvasesApart, Canvases
<1>9. CanvasesApart'
  <2>1. \A v \in Live : canvas'[v] = canvas[v] /\ canvas'[v] # c
    BY <1>1, <1>3, <1>5, <1>7, <1>8
  <2> QED BY <1>1, <1>3, <1>4, <1>5, <1>7, <2>1 DEF CanvasesApart
<1>10. SelectorsKept'
  <2>1. /\ selectors' \in Seq(Canvases) /\ Len(selectors') <= SelectorSlots
        /\ Len(selectors') < SelectorSlots =>
             /\ Len(selectors) < SelectorSlots /\ c \in ToSet(selectors')
             /\ ToSet(selectors) \subseteq ToSet(selectors')
    BY <1>1, <1>3, CallbacksRegistered
  <2>2. ASSUME Len(selectors') < SelectorSlots, NEW v \in Live' PROVE canvas'[v] \in ToSet(selectors')
    <3>1. CASE v = w
      BY <1>5, <2>1, <2>2, <3>1
    <3>2. CASE v \in Live
      BY <1>1, <1>3, <1>5, <2>1, <2>2, <3>2 DEF SelectorsKept
    <3> QED BY <1>4, <3>1, <3>2
  <2> QED BY <2>1, <2>2 DEF SelectorsKept
<1>11. FocusLives'
  <2>1. focus \in [keyboard : Windows \cup {NoWindow}, mouse : Windows \cup {NoWindow},
                   mode : Windows \cup {NoWindow}]
    BY <1>3 DEF FocusLives
  <2>2. /\ focus' \in [keyboard : Windows \cup {NoWindow}, mouse : Windows \cup {NoWindow},
                       mode : Windows \cup {NoWindow}]
        /\ focus'.keyboard \in {w, focus.keyboard} /\ focus'.mouse \in {w, focus.mouse}
        /\ focus'.mode = focus.mode
    BY <1>2, <2>1
  <2> QED BY <1>2, <1>3, <1>4, <2>2 DEF FocusLives
<1>12. LockHeard'
  <2>1. inherited' \subseteq Live'
    BY <1>1, <1>3, <1>4 DEF LockHeard
  <2>2. \A v \in Live : Locked(v)' <=> Locked(v)
    BY <1>1, <1>3, <1>5 DEF Locked
  <2>3. Locked(w)' <=> lock \in {c, PageElement}
    BY <1>1, <1>5 DEF Locked
  <2>4. LockAgrees'
    <3> SUFFICES ASSUME ~changed PROVE pointer_locked = {v \in Live' : Locked(v)'} \ inherited'
      BY <1>1 DEF LockAgrees
    <3>1. pointer_locked = {v \in Live : Locked(v)} \ inherited
      BY <1>3 DEF LockHeard, LockAgrees
    <3> QED BY <1>1, <1>3, <1>4, <2>2, <2>3, <3>1 DEF LockHeard
  <2>5. pointer_locked' \subseteq Live'
    BY <1>1, <1>3, <1>4 DEF LockHeard
  <2> QED BY <1>1, <1>3, <2>1, <2>4, <2>5 DEF LockHeard
<1>13. PositionKept'
  BY <1>1, <1>3 DEF PositionKept
<1> QED BY <1>1, <1>6, <1>9, <1>10, <1>11, <1>12, <1>13, NothingTold DEF PointerInv

LEMMA DestroyWindowKeeps == ASSUME PointerInv, NEW w \in Windows, DestroyWindow(w) PROVE PointerInv'
<1> DEFINE c == canvas[w]
<1>1. /\ w \in Live /\ RemoveWindow(w)
      /\ canvas' = [canvas EXCEPT ![w] = NoCanvas]
      /\ pointer_locked' = pointer_locked \ {w} /\ inherited' = inherited \ {w}
      /\ IF c > 0 /\ lock = c THEN lock' = NoCanvas /\ changed' = TRUE ELSE UNCHANGED <<lock, changed>>
      /\ asked' = IF c > 0 /\ asked = c THEN NoCanvas ELSE asked
      /\ motion' = NoMotion /\ hidden' = hidden \ {w}
      /\ UNCHANGED <<next_canvas_id, selectors, pointer>>
  BY DEF DestroyWindow
<1>2. /\ ListedOnce /\ CanvasesApart /\ SelectorsKept /\ FocusLives /\ LockHeard /\ PositionKept
      /\ Live \subseteq Windows
  BY LiveWindows DEF PointerInv
<1>3. PICK i \in DOMAIN windows : windows[i] = w /\ windows' = RemoveAt(windows, i)
  BY <1>1 DEF RemoveWindow
<1>4. /\ windows' \in Seq(Windows) /\ Live' = Live \ {w}
      /\ \A j, k \in DOMAIN windows' : windows'[j] = windows'[k] => j = k
  BY <1>2, <1>3, Unlisted
<1>5. /\ canvas' \in [Windows -> Canvases \cup {NoCanvas}]
      /\ \A v \in Live' : canvas'[v] = canvas[v]
  BY <1>1, <1>2, <1>4 DEF CanvasesApart
<1>6. ListedOnce' /\ CanvasesApart' /\ SelectorsKept'
  <2>1. ListedOnce'
    BY <1>4 DEF ListedOnce
  <2>2. CanvasesApart'
    BY <1>1, <1>2, <1>4, <1>5 DEF CanvasesApart
  <2>3. SelectorsKept'
    BY <1>1, <1>2, <1>4, <1>5 DEF SelectorsKept
  <2> QED BY <2>1, <2>2, <2>3
<1>7. FocusLives'
  <2>1. focus' = [focus EXCEPT !.keyboard = IF @ = w THEN NoWindow ELSE @,
                               !.mouse = IF @ = w THEN NoWindow ELSE @,
                               !.mode = IF @ = w THEN NoWindow ELSE @]
    BY <1>1 DEF RemoveWindow
  <2>2. /\ focus'.keyboard = IF focus.keyboard = w THEN NoWindow ELSE focus.keyboard
        /\ focus'.mouse = IF focus.mouse = w THEN NoWindow ELSE focus.mouse
        /\ focus'.mode = IF focus.mode = w THEN NoWindow ELSE focus.mode
        /\ focus' \in [keyboard : Windows \cup {NoWindow}, mouse : Windows \cup {NoWindow},
                       mode : Windows \cup {NoWindow}]
    BY <1>2, <2>1 DEF FocusLives
  <2> QED BY <1>1, <1>2, <1>4, <2>2 DEF FocusLives
<1>8. LockHeard'
  <2>1. /\ lock' \in {lock, NoCanvas} /\ asked' \in {asked, NoCanvas}
        /\ (~changed' => ~changed /\ lock' = lock) /\ changed' \in BOOLEAN
    <3>1. CASE c > 0 /\ lock = c
      BY <1>1, <3>1
    <3>2. CASE ~(c > 0 /\ lock = c)
      BY <1>1, <1>2, <3>2 DEF LockHeard
    <3> QED BY <3>1, <3>2
  <2>2. \A v \in Live' : ~changed' => (Locked(v)' <=> Locked(v))
    BY <1>5, <2>1 DEF Locked
  <2>3. LockAgrees'
    <3> SUFFICES ASSUME ~changed' PROVE pointer_locked' = {v \in Live' : Locked(v)'} \ inherited'
      BY DEF LockAgrees
    <3>1. pointer_locked = {v \in Live : Locked(v)} \ inherited
      BY <1>2, <2>1 DEF LockHeard, LockAgrees
    <3> QED BY <1>1, <1>4, <2>2, <3>1
  <2> QED BY <1>1, <1>2, <1>4, <2>1, <2>3 DEF LockHeard
<1>9. PositionKept'
  <2>1. \/ last' = NoLast
        \/ last' = last /\ mouse_x' = mouse_x
    BY <1>1 DEF RemoveWindow
  <2>2. NoLast.canvas = NoCanvas
    BY DEF NoLast
  <2> QED BY <1>1, <1>2, <2>1, <2>2 DEF PositionKept
<1> QED BY <1>1, <1>6, <1>7, <1>8, <1>9, NothingTold DEF PointerInv

\* What windows and their canvases do not take part in.
LEMMA ListStays ==
  ASSUME PointerInv, UNCHANGED <<windows, canvas, next_canvas_id, selectors>>
  PROVE  /\ ListedOnce' /\ CanvasesApart' /\ SelectorsKept' /\ Live' = Live
         /\ \A w : lock' = lock => (Locked(w)' <=> Locked(w))
<1>1. Live' = Live
  BY DEF Live
<1> QED BY <1>1 DEF PointerInv, ListedOnce, CanvasesApart, SelectorsKept, Locked

LEMMA LockStays ==
  ASSUME PointerInv, UNCHANGED <<windows, canvas, next_canvas_id, selectors>>,
         lock' = lock, asked' \in Canvases \cup {NoCanvas},
         UNCHANGED <<changed, pointer_locked, inherited>>
  PROVE  LockHeard'
<1>1. Live' = Live /\ \A w : Locked(w)' <=> Locked(w)
  BY ListStays
<1>2. LockAgrees'
  BY <1>1 DEF PointerInv, LockHeard, LockAgrees
<1> QED BY <1>1, <1>2 DEF PointerInv, LockHeard

LEMMA PositionStays == ASSUME PointerInv, UNCHANGED <<pointer, mouse_x, last>> PROVE PositionKept'
BY DEF PointerInv, PositionKept

\* The focus goes to window w, or leaves it.
LEMMA FocusMoves ==
  ASSUME PointerInv, NEW w \in Live, UNCHANGED windows, hidden' \subseteq Live,
         \/ focus' = focus
         \/ focus' = [focus EXCEPT !.keyboard = w, !.mouse = w]
         \/ focus' = [focus EXCEPT !.keyboard = IF @ = w THEN NoWindow ELSE @,
                                   !.mouse = IF @ = w THEN NoWindow ELSE @]
         \/ focus' = [focus EXCEPT !.mode = w]
         \/ focus' = [focus EXCEPT !.mode = IF @ = w THEN NoWindow ELSE @]
  PROVE  FocusLives'
<1>1. /\ focus \in [keyboard : Windows \cup {NoWindow}, mouse : Windows \cup {NoWindow},
                    mode : Windows \cup {NoWindow}]
      /\ {focus.keyboard, focus.mouse, focus.mode} \subseteq Live \cup {NoWindow}
      /\ w \in Windows /\ Live' = Live
  BY LiveWindows DEF PointerInv, FocusLives, Live
<1>2. /\ focus' \in [keyboard : Windows \cup {NoWindow}, mouse : Windows \cup {NoWindow},
                     mode : Windows \cup {NoWindow}]
      /\ focus'.keyboard \in {w, NoWindow, focus.keyboard} /\ focus'.mouse \in {w, NoWindow, focus.mouse}
      /\ focus'.mode \in {w, NoWindow, focus.mode}
  BY <1>1
<1> QED BY <1>1, <1>2 DEF FocusLives

LEMMA ShowWindowKeeps == ASSUME PointerInv, NEW w \in Windows, ShowWindow(w) PROVE PointerInv'
<1>1. /\ w \in Live /\ hidden' \subseteq Live /\ focus' = [focus EXCEPT !.keyboard = w, !.mouse = w]
      /\ motion' = NoMotion
      /\ UNCHANGED <<windows, canvas, next_canvas_id, selectors, lockVars, pointer, mouse_x, last>>
  BY DEF ShowWindow, PointerInv, FocusLives
<1>2. asked' \in Canvases \cup {NoCanvas} /\ UNCHANGED <<lock, changed, pointer_locked, inherited>>
  BY <1>1 DEF lockVars, PointerInv, LockHeard
<1>3. FocusLives'
  BY <1>1, FocusMoves
<1> QED BY <1>1, <1>2, <1>3, ListStays, LockStays, PositionStays, NothingTold DEF PointerInv

LEMMA HideWindowKeeps == ASSUME PointerInv, NEW w \in Windows, HideWindow(w) PROVE PointerInv'
<1>1. /\ w \in Live /\ hidden' \subseteq Live /\ motion' = NoMotion
      /\ focus' = [focus EXCEPT !.keyboard = IF @ = w THEN NoWindow ELSE @,
                                !.mouse = IF @ = w THEN NoWindow ELSE @]
      /\ UNCHANGED <<windows, canvas, next_canvas_id, selectors, lockVars, pointer, mouse_x, last>>
  BY DEF HideWindow, PointerInv, FocusLives
<1>2. asked' \in Canvases \cup {NoCanvas} /\ UNCHANGED <<lock, changed, pointer_locked, inherited>>
  BY <1>1 DEF lockVars, PointerInv, LockHeard
<1>3. FocusLives'
  BY <1>1, FocusMoves
<1> QED BY <1>1, <1>2, <1>3, ListStays, LockStays, PositionStays, NothingTold DEF PointerInv

LEMMA EnterRelativeModeKeeps == ASSUME PointerInv, NEW w \in Windows, EnterRelativeMode(w) PROVE PointerInv'
<1>1. /\ w \in Live /\ motion' = NoMotion
      /\ UNCHANGED <<windows, canvas, next_canvas_id, selectors, hidden, pointer_locked, lock, changed,
                     inherited, pointer, mouse_x, last>>
      /\ focus' = focus \/ focus' = [focus EXCEPT !.mode = w]
      /\ asked' \in {asked, canvas[w]}
  BY DEF EnterRelativeMode
<1>2. asked' \in Canvases \cup {NoCanvas}
  BY <1>1 DEF PointerInv, LockHeard, CanvasesApart
<1>3. FocusLives'
  <2>1. hidden' \subseteq Live
    BY <1>1 DEF PointerInv, FocusLives
  <2> QED BY <1>1, <2>1, FocusMoves
<1> QED BY <1>1, <1>2, <1>3, ListStays, LockStays, PositionStays, NothingTold DEF PointerInv

LEMMA LeaveRelativeModeKeeps == ASSUME PointerInv, NEW w \in Windows, LeaveRelativeMode(w) PROVE PointerInv'
<1>1. /\ w \in Live /\ motion' = NoMotion
      /\ UNCHANGED <<windows, canvas, next_canvas_id, selectors, hidden, pointer_locked, inherited,
                     pointer, mouse_x, last>>
      /\ focus' = focus \/ focus' = [focus EXCEPT !.mode = IF @ = w THEN NoWindow ELSE @]
      /\ asked' \in {asked, NoCanvas}
  BY DEF LeaveRelativeMode
<1>2. \/ lock' = lock /\ changed' = changed
      \/ lock' = NoCanvas /\ changed' = (changed \/ lock # NoCanvas)
  BY DEF LeaveRelativeMode
<1>3. FocusLives'
  <2>1. hidden' \subseteq Live
    BY <1>1 DEF PointerInv, FocusLives
  <2> QED BY <1>1, <2>1, FocusMoves
<1>4. asked' \in Canvases \cup {NoCanvas}
  BY <1>1 DEF PointerInv, LockHeard
<1>5. LockHeard'
  <2>1. CASE lock' = lock /\ changed' = changed
    BY <1>1, <1>4, <2>1, LockStays
  <2>2. CASE lock' = NoCanvas /\ changed' = (changed \/ lock # NoCanvas)
    <3>1. changed' \in BOOLEAN
      BY <2>2
    <3>2. ~changed' => ~changed /\ lock' = lock
      BY <2>2
    <3>3. Live' = Live /\ (~changed' => \A v : Locked(v)' <=> Locked(v))
      BY <1>1, <3>2, ListStays
    <3>4. LockAgrees'
      BY <1>1, <3>2, <3>3 DEF PointerInv, LockHeard, LockAgrees
    <3> QED BY <1>1, <1>4, <2>2, <3>1, <3>3, <3>4 DEF PointerInv, LockHeard
  <2> QED BY <1>2, <2>1, <2>2
<1> QED BY <1>1, <1>3, <1>5, ListStays, PositionStays, NothingTold DEF PointerInv

\* Steps of the browser, and of the callback that hears of them.
LEMMA LockStepKeeps ==
  ASSUME PointerInv, AnswerLock \/ LockMoves \/ PointerlockCb PROVE PointerInv'
<1>1. motion' = NoMotion /\ UNCHANGED <<windowVars, pointer, mouse_x, last>>
  BY DEF AnswerLock, LockMoves, PointerlockCb
<1>2. UNCHANGED <<windows, canvas, next_canvas_id, selectors, focus, hidden>>
  BY <1>1 DEF windowVars
<1>3. Live' = Live /\ ListedOnce' /\ CanvasesApart' /\ SelectorsKept'
  BY <1>2, ListStays
<1>4. FocusLives'
  BY <1>2, <1>3 DEF PointerInv, FocusLives
<1>5. LockHeard'
  <2>1. CASE AnswerLock /\ UNCHANGED <<lock, changed>>
    BY <1>2, <2>1, LockStays DEF AnswerLock
  <2>2. CASE (AnswerLock \/ LockMoves) /\ changed' = TRUE
    <3>1. /\ lock' \in Canvases \cup {NoCanvas, PageElement} /\ asked' \in Canvases \cup {NoCanvas}
          /\ UNCHANGED <<pointer_locked, inherited>>
      BY <2>2 DEF AnswerLock, LockMoves, PointerInv, LockHeard
    <3>2. changed' \in BOOLEAN
      BY <2>2
    <3> QED BY <1>3, <2>2, <3>1, <3>2 DEF PointerInv, LockHeard, LockAgrees
  <2>3. CASE PointerlockCb
    <3>1. /\ changed' = FALSE /\ pointer_locked' = {v \in Live : Locked(v)} /\ inherited' = {}
          /\ lock' = lock /\ asked' = asked
      BY <2>3 DEF PointerlockCb
    <3>2. \A v : Locked(v)' <=> Locked(v)
      BY <1>2, <3>1, ListStays
    <3>3. LockAgrees'
      BY <1>3, <3>1, <3>2 DEF LockAgrees
    <3>4. changed' \in BOOLEAN
      BY <3>1
    <3> QED BY <1>3, <3>1, <3>3, <3>4 DEF PointerInv, LockHeard
  <2> QED BY <2>1, <2>2, <2>3 DEF AnswerLock, LockMoves
<1> QED BY <1>1, <1>3, <1>4, <1>5, PositionStays, NothingTold DEF PointerInv

\* What the mouse does leaves windows and lock alone.
LEMMA MouseStays ==
  ASSUME PointerInv, UNCHANGED <<windowVars, lockVars>>, PositionKept', MotionTold'
  PROVE  PointerInv'
<1>1. /\ UNCHANGED <<windows, canvas, next_canvas_id, selectors, focus, hidden>>
      /\ UNCHANGED <<pointer_locked, lock, asked, changed, inherited>>
  BY DEF windowVars, lockVars
<1>2. asked' \in Canvases \cup {NoCanvas}
  BY <1>1 DEF PointerInv, LockHeard
<1>3. Live' = Live /\ ListedOnce' /\ CanvasesApart' /\ SelectorsKept' /\ LockHeard'
  BY <1>1, <1>2, ListStays, LockStays
<1>4. FocusLives'
  BY <1>1, <1>3 DEF PointerInv, FocusLives
<1> QED BY <1>3, <1>4 DEF PointerInv

LEMMA MoveMouseKeeps == ASSUME PointerInv, NEW c \in Canvases, MoveMouse(c) PROVE PointerInv'
<1>1. PICK movement \in -1 .. 1 :
        /\ pointer + movement \in Places \/ lock = c
        /\ pointer' = IF lock = c THEN pointer ELSE pointer + movement
        /\ MouseMoveCb(c, pointer', movement)
  BY DEF MoveMouse
<1> DEFINE locked == WindowFromSelector(c) \in pointer_locked
           x == IF locked THEN 0 ELSE pointer'
           rel == IF locked THEN movement ELSE 0
           moved == IF locked THEN movement ELSE pointer' - last.at
           same == last.canvas = c /\ last.locked = locked
<1>2. /\ pointer \in Places /\ pointer' \in Places /\ 0 \in Places /\ Places \subseteq Nat /\ c # NoCanvas
      /\ movement \in Int
  BY <1>1, WebPointerAssumption DEF PointerInv, PositionKept, Places, Canvases, NoCanvas
<1>3. CASE WindowFromSelector(c) = NoWindow
  <2>1. UNCHANGED <<mouse_x, last>> /\ motion' = NoMotion
    BY <1>1, <1>3 DEF MouseMoveCb
  <2> QED BY <1>2, <2>1, NothingTold, MouseStays DEF MoveMouse, PointerInv, PositionKept
<1>4. CASE WindowFromSelector(c) # NoWindow
  <2>1. /\ mouse_x' = x
        /\ last' = [canvas |-> c, locked |-> locked, at |-> pointer']
        /\ motion' = [told |-> Told(x, rel), moved |-> moved, comparable |-> same]
    BY <1>1, <1>4 DEF MouseMoveCb
  <2>2. locked \in BOOLEAN
    OBVIOUS
  <2>3. PositionKept'
    <3>1. last'.canvas = c /\ last'.locked = locked /\ last'.at = pointer'
      BY <2>1
    <3> HIDE DEF locked
    <3> QED BY <1>2, <2>1, <2>2, <3>1 DEF PositionKept
  <2>4. MotionTold'
    <3>1. motion'.comparable = same /\ motion'.told = Told(x, rel) /\ motion'.moved = moved
      BY <2>1
    <3>2. SUFFICES ASSUME same PROVE Told(x, rel) = moved
      BY <3>1 DEF MotionTold
    <3>3. mouse_x = (IF last.locked THEN 0 ELSE last.at) /\ last.at \in Places
      BY <1>2, <3>2 DEF PointerInv, PositionKept
    <3>4. CASE locked
      <4>1. x = 0 /\ rel = movement /\ moved = movement /\ mouse_x = 0
        BY <3>2, <3>3, <3>4
      <4> HIDE DEF x, rel, moved
      <4> QED BY <1>2, <4>1 DEF Told, NoCanvas
    <3>5. CASE ~locked
      <4>1. x = pointer' /\ rel = 0 /\ moved = pointer' - last.at /\ mouse_x = last.at
        BY <3>2, <3>3, <3>5
      <4>2. mouse_x # NoCanvas
        BY <1>2, <3>3, <4>1 DEF NoCanvas
      <4> HIDE DEF x, rel, moved
      <4> QED BY <4>1, <4>2 DEF Told
    <3> QED BY <3>4, <3>5
  <2> QED BY <2>3, <2>4, MouseStays DEF MoveMouse
<1> QED BY <1>3, <1>4

LEMMA PressButtonKeeps == ASSUME PointerInv, NEW c \in Canvases, PressButton(c) PROVE PointerInv'
<1>1. /\ mouse_x' = pointer /\ motion' = NoMotion /\ pointer' = pointer /\ UNCHANGED <<windowVars, lockVars>>
      /\ last' = NoLast \/ last' = [canvas |-> c, locked |-> FALSE, at |-> pointer]
  BY DEF PressButton
<1>2. pointer \in Places
  BY DEF PointerInv, PositionKept
<1>3. PositionKept'
  <2>1. CASE last' = NoLast
    <3>1. last'.canvas = NoCanvas
      BY <2>1 DEF NoLast
    <3> QED BY <1>1, <1>2, <3>1 DEF PositionKept
  <2>2. CASE last' = [canvas |-> c, locked |-> FALSE, at |-> pointer]
    <3>1. last'.locked = FALSE /\ last'.at = pointer
      BY <2>2
    <3>2. last'.locked \in BOOLEAN
      BY <3>1
    <3> QED BY <1>1, <1>2, <3>1, <3>2 DEF PositionKept
  <2> QED BY <1>1, <2>1, <2>2
<1> QED BY <1>1, <1>3, NothingTold, MouseStays

LEMMA PointerInvStep == PointerInv /\ [PointerNext]_pointerVars => PointerInv'
<1> SUFFICES ASSUME PointerInv, [PointerNext]_pointerVars PROVE PointerInv'
  OBVIOUS
<1>1. ASSUME NEW w \in Windows,
             \/ \E shown \in BOOLEAN : CreateWindow(w, shown)
             \/ DestroyWindow(w) \/ ShowWindow(w) \/ HideWindow(w)
             \/ EnterRelativeMode(w) \/ LeaveRelativeMode(w)
      PROVE  PointerInv'
  BY <1>1, CreateWindowKeeps, DestroyWindowKeeps, ShowWindowKeeps, HideWindowKeeps,
     EnterRelativeModeKeeps, LeaveRelativeModeKeeps
<1>2. CASE AnswerLock \/ LockMoves \/ PointerlockCb
  BY <1>2, LockStepKeeps
<1>3. ASSUME NEW c \in Canvases, MoveMouse(c) \/ PressButton(c) PROVE PointerInv'
  BY <1>3, MoveMouseKeeps, PressButtonKeeps
<1>4. CASE UNCHANGED pointerVars
  <2>1. UNCHANGED <<windowVars, lockVars>> /\ UNCHANGED <<pointer, mouse_x, last, motion>>
    BY <1>4 DEF pointerVars, mouseVars
  <2>2. MotionTold'
    BY <2>1 DEF PointerInv, MotionTold
  <2> QED BY <2>1, <2>2, PositionStays, MouseStays
<1> QED BY <1>1, <1>2, <1>3, <1>4 DEF PointerNext

(* The pointer leads to its window: focus and relative mode name windows that *)
(* live, canvases are not shared and keep their callbacks while the table has *)
(* room; the lock is where the program thinks once it heard of it; and two    *)
(* motions in a row add up (emscripten_CreateWindow, pointerlock_cb,          *)
(* mouse_move_cb).                                                            *)
THEOREM PointerAlwaysSound == PointerSpec => []PointerSound
<1>1. PointerInv => PointerSound
  BY DEF PointerInv, CanvasesApart, SelectorsKept, FocusLives, LockHeard, PointerSound, WindowsReachable
<1> QED BY <1>1, PointerInvInit, PointerInvStep, PTL DEF PointerSpec
================================================================================
