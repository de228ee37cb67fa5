---------------------------- MODULE MCSmsService ----------------------------
(* Loads that meet in one behaviour: messages with and without attachments,   *)
(* a message beside an image, and images beside a notice.                     *)
EXTENDS SmsService

MCLoads == {{"text", "photo"}, {"text", "image1"}, {"image1", "image2", "note"}}
=============================================================================
