---------------------------- MODULE ScreenGrabber ----------------------------
(***************************************************************************)
(* ScreenGrabber::GrabAsPNG (screen_grabber.cc), one call that can fail at *)
(* a time: the display and the image it owns on the way, the pixels it     *)
(* takes out of the image, and what is released when it throws.            *)
(***************************************************************************)
EXTENDS Integers, Sequences, UniqueResource

CONSTANTS
  Displays, XImages,  \* handles of XOpenDisplay and XGetImage
  Screens             \* windows and pixel formats the X server may have

Format == [bits_per_pixel : Nat, lsb_first : BOOLEAN, padding : Nat]

Screen == [width : Int, height : Int, format : Format]

ASSUME GrabberAssumption ==
  /\ {"u_disp", "disp", "u_ximg", "img"} \subseteq Owners
  /\ Displays \cup XImages \subseteq Resources
  /\ Displays \cap XImages = {}
  /\ Screens \subseteq Screen

VARIABLES
  grab,    \* place in GrabAsPNG
  screen,  \* the root window at the last call, which finds what it finds
  png      \* out_png: number of pieces it is sent in, 0 when it is empty

grabberVars == <<grab, screen, png>>

GrabPlaces == {"idle", "open", "return_disp", "attributes", "capture",
               "return_img", "convert", "encode", "grabbed", "throw"}

GrabberInit ==
  /\ grab = "idle" /\ png = 0
  /\ screen = CHOOSE s \in Screens : TRUE

(* A step to another place that touches no resource. *)
GrabGoes(place) == grab' = place /\ UNCHANGED <<screen, resourceVars>>

-----------------------------------------------------------------------------
(* OpenDisplay: the local u_disp, and its move to the caller's disp.       *)
OpenDisplay(r) ==
  /\ grab = "open"
  /\ r \in Displays \cup {Invalid}
  /\ Construct("u_disp", r)
  /\ grab' = IF r = Invalid THEN "throw" ELSE "return_disp"
  /\ screen' \in Screens
  /\ UNCHANGED png

ReturnDisplay ==
  /\ grab = "return_disp"
  /\ \/ /\ "disp" \notin live
        /\ MoveConstruct("disp", "u_disp")
        /\ UNCHANGED grab
     \/ /\ "disp" \in live
        /\ LeaveScope({"u_disp"})
        /\ grab' = "attributes"
  /\ UNCHANGED <<screen, png>>

(* XGetWindowAttributes may fail, and the size has to be positive. *)
GetScreenAttributes ==
  /\ grab = "attributes"
  /\ \/ GrabGoes("throw")
     \/ screen.width > 0 /\ screen.height > 0 /\ GrabGoes("capture")
  /\ UNCHANGED png

CaptureImage(r) ==
  /\ grab = "capture"
  /\ r \in XImages \cup {Invalid}
  /\ Construct("u_ximg", r)
  /\ grab' = IF r = Invalid THEN "throw" ELSE "return_img"
  /\ UNCHANGED <<screen, png>>

ReturnImage ==
  /\ grab = "return_img"
  /\ \/ /\ "img" \notin live
        /\ MoveConstruct("img", "u_ximg")
        /\ UNCHANGED grab
     \/ /\ "img" \in live
        /\ LeaveScope({"u_ximg"})
        /\ grab' = "convert"
  /\ UNCHANGED <<screen, png>>

-----------------------------------------------------------------------------
(* ConvertToRGB.  img->data is a sequence of bytes; a byte is named by the *)
(* pixel and the colour it belongs to, or is padding.                      *)

Supported(f) == f.bits_per_pixel \in {24, 32}

PixelBytes(f) == f.bits_per_pixel \div 8

BytesPerLine(s) == s.width * PixelBytes(s.format) + s.format.padding

(* Where a colour stands in the bytes of a pixel. *)
Offset(f) ==
  CASE f.lsb_first -> [red |-> 2, green |-> 1, blue |-> 0]
    [] ~f.lsb_first /\ f.bits_per_pixel = 24 -> [red |-> 0, green |-> 1, blue |-> 2]
    [] ~f.lsb_first /\ f.bits_per_pixel = 32 -> [red |-> 1, green |-> 2, blue |-> 3]

(* Slip: rows are taken to follow each other without padding. *)
SourceIndexUnpadded(s, x, y, colour) ==
  y * s.width * PixelBytes(s.format) + x * PixelBytes(s.format)
    + Offset(s.format)[colour]

SourceIndex(s, x, y, colour) ==
  y * BytesPerLine(s) + x * PixelBytes(s.format) + Offset(s.format)[colour]

Colours == <<"red", "green", "blue">>

(* The vector pixels, each element with the index of img->data it came     *)
(* from: index (y * width + x) * 3 + c is written once, in this order.     *)
ConvertToRGB(s) ==
  [i \in 1 .. s.width * s.height * 3 |->
     LET pixel == (i - 1) \div 3
     IN  SourceIndex(s, pixel % s.width, pixel \div s.width,
                     Colours[((i - 1) % 3) + 1])]

Convert ==
  /\ grab = "convert"
  /\ GrabGoes(IF Supported(screen.format) THEN "encode" ELSE "throw")
  /\ UNCHANGED png

(* EncodePNG does not look at stb's result: the vector may stay empty. *)
EncodePNG ==
  /\ grab = "encode"
  /\ png' \in {0, 1}
  /\ GrabGoes("grabbed")

Locals == live \cap {"u_disp", "disp", "u_ximg", "img"}

(* Slip: the exception passes by the display. *)
UnwindLeaks ==
  /\ grab \in {"grabbed", "throw"}
  /\ LeaveScope(Locals \ {"disp"})
  /\ grab' = "idle"
  /\ UNCHANGED <<screen, png>>

(* The end of GrabAsPNG, by return or by exception. *)
LeaveGrabAsPNG ==
  /\ grab \in {"grabbed", "throw"}
  /\ LeaveScope(Locals)
  /\ grab' = "idle"
  /\ UNCHANGED <<screen, png>>

GrabAsPNG ==
  \/ \E r \in Displays \cup {Invalid} : OpenDisplay(r)
  \/ ReturnDisplay
  \/ GetScreenAttributes
  \/ \E r \in XImages \cup {Invalid} : CaptureImage(r)
  \/ ReturnImage
  \/ Convert
  \/ EncodePNG

-----------------------------------------------------------------------------
(* The layout XGetImage documents: rows one after another, each padded,    *)
(* pixels of 3 or 4 bytes, least significant byte first or last, and       *)
(* within a pixel's value blue in the lowest byte, then green, then red.   *)
XImageData(s) ==
  LET n == PixelBytes(s.format)
      Names == IF s.format.lsb_first THEN <<"blue", "green", "red", "unused">>
               ELSE IF n = 3 THEN <<"red", "green", "blue">>
               ELSE <<"unused", "red", "green", "blue">>
  IN  [i \in 0 .. s.height * BytesPerLine(s) - 1 |->
         LET column == i % BytesPerLine(s)
         IN  IF column >= s.width * n THEN <<"padding">>
             ELSE <<column \div n, i \div BytesPerLine(s), Names[(column % n) + 1]>>]

(* Every byte of the result is the colour it stands for of the pixel it    *)
(* stands for, pixels row by row, and no byte is read beyond the image     *)
(* (ConvertToRGB, screen_grabber.cc:41-96).                                *)
PixelsExact ==
  grab = "encode" =>
    LET data   == XImageData(screen)
        pixels == ConvertToRGB(screen)
    IN  \A x \in 0 .. screen.width - 1, y \in 0 .. screen.height - 1, c \in 1 .. 3 :
          LET from == pixels[(y * screen.width + x) * 3 + c]
          IN  from \in DOMAIN data /\ data[from] = <<x, y, Colours[c]>>
=============================================================================
