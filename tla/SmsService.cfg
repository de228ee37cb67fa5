CONSTANTS
  Texts = {"text"}
  Media = {"photo"}
  Attachments = 2
  Images = {"image1", "image2"}
  Notices = {"note"}
  InboxSize = 1
  DedupeSize = 2
  MaxItems = 1
  MaxPosts = 4
  Loads <- MCLoads
SPECIFICATION Spec
INVARIANTS AnsweredOnce EvidenceTrue ImageFetchable
PROPERTY AcceptedTaken
