------------------------------- MODULE MCAuto -------------------------------
(* TLC instance of AutoInstrumentation: every hooked function, in applications of   *)
(* a few functions that may call each other.                                        *)
EXTENDS AutoInstrumentation

MCApplications ==
  {{"sendRequest", "Application::run", "completeRequest", "setRouteMatch"},
   {"connect", "prepare", "execute", "Connection::execute"},
   {"_connect", "Adapter::prepare", "Statement::execute"},
   {"route", "sendResponse", "Kernel::handle", "sendRequest"},
   {"Command::run", "Command::execute", "HttpKernel::handle"}}
=============================================================================
