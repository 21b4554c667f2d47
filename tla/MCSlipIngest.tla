---------------------------- MODULE MCSlipIngest ----------------------------
(***************************************************************************)
(* Instances of SlipIngest for TLC.                                        *)
(***************************************************************************)
EXTENDS SlipIngest, TLC

CONSTANTS open, open2, image, image2, close, cancel

OneOpen == {open}
OneImage == {image}
OneClose == {close}

(* One session with two images, the second received with the close.       *)
PairImages == {image, image2}
PairStamp == [e \in {open, image, close, image2} |->
                CASE e = open -> 1 [] e = image -> 2 [] e = image2 -> 3 [] e = close -> 4]
PairReceipts == {{open}, {image}, {image2, close}}

(* A session opened and closed in one request, and a second with an image  *)
(* of its own; the second open and the image are received in any order.    *)
TwoOpens == {open, open2}
TwoStamp == [e \in {open, close, open2, image} |->
                CASE e = open -> 1 [] e = close -> 2 [] e = open2 -> 3 [] e = image -> 4]
TwoReceipts == {{open, close}, {open2}, {image}}

(* A cancel and a close of one session with the same LINE time, so that    *)
(* they may be worked on at once.                                          *)
OneCancel == {cancel}
CancelStamp == [e \in {open, cancel, close, image} |->
                CASE e = open -> 1 [] e = image -> 2 [] e = cancel -> 3 [] e = close -> 3]
CancelReceipts == {{open, image}, {cancel}, {close}}
=============================================================================
