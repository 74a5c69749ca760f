\* One bound tag, one stream of its samples; the projector that fills the page
\* and the handler of the page's request may both close the stream.
SPECIFICATION StreamSpec
CONSTANTS
  Bound = {a}
  Types = {"x", "y"}
  FeedBuffer = 1
  Buffer = 1
  MaxValues = 2
  MaxRetypes = 1
  Nothing = Nothing
INVARIANTS ClosedOnce
\* A stream that was closed rests.
CHECK_DEADLOCK FALSE
