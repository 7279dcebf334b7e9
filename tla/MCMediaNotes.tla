---------------------------- MODULE MCMediaNotes ----------------------------
(* A small configuration of the chains, and a batch with a photo that has  *)
(* two sources, a GIF that comes with a copy as a document, a text, and    *)
(* over the limit an animated sticker and a voice message.                 *)
EXTENDS MediaNotes

CONSTANTS worker, gemini, backup, off

Offer(p, models, modalities) ==
  [provider |-> p, models |-> models, modalities |-> modalities]

MCConfig ==
  [r \in Role |->
     CASE r = "media"    -> <<Offer(gemini, <<1>>, {"image"}),
                              Offer(off, <<1>>, {"audio"}),
                              Offer(backup, <<1>>, {})>>
       [] r = "vs"       -> <<Offer(gemini, <<1>>, {})>>
       [] r = "search"   -> <<Offer(gemini, <<1>>, {}), Offer(backup, <<1>>, {})>>
       [] OTHER          -> <<Offer(off, <<1>>, {}), Offer(gemini, <<1, 2>>, {})>>]

Attached(has, format, image, thumb, text) ==
  [has |-> has, format |-> format, image |-> image, thumb |-> thumb,
   text |-> text]

MCBatch ==
  <<Attached({"document"}, "static", TRUE, TRUE, FALSE),
    Attached({"animation", "document"}, "static", TRUE, TRUE, FALSE),
    Attached({}, "static", FALSE, FALSE, TRUE),
    Attached({"sticker"}, "animated", FALSE, TRUE, FALSE),
    Attached({"voice"}, "static", FALSE, FALSE, FALSE)>>

MCCall == DOMAIN MCBatch \union {worker}
=============================================================================
