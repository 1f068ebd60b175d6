------------------------------ MODULE Promises ------------------------------
(* What the services around the pipeline promise to those who look at the   *)
(* page, ask a question or put a paper in the folder.                       *)
EXTENDS TaskEvents, LiveReload, PhotoConvert, ClassifyFlow, OllamaHealth, ChatFlow, LogFile

(* What a page of the browser shows: the page of a run follows the task     *)
(* (PagesFollowTask), the page of the live reload is the newest there is    *)
(* once its stream is quiet (PageIsFresh), and the page of the log shows a  *)
(* document as failed that did (FailureStaysVisible).                       *)
PagesShowWhatIs == PagesFollowTask /\ PageIsFresh /\ FailureStaysVisible

(* What becomes of a paper: a photograph is kept until its PDF is           *)
(* (PhotosKept), and its text arrives whole (TextWhole).                    *)
PapersWhole == PhotosKept /\ TextWhole

(* What a user is told: the health of the model server is recent and about  *)
(* the model asked for (AnswersHonest), and the chat answers with what was  *)
(* asked for (ChatServes).                                                  *)
AnswersSound == AnswersHonest /\ ChatServes
=============================================================================
